---- MODULE Spec2Model ----
(***************************************************************************)
(* Model of the request composition and result aggregation wrappers of     *)
(* src/Azure/NGD_API_Wrappers.py: limit_extension (pagination),            *)
(* multigeometry_search_extension (geometry fan-out),                      *)
(* multiple_collections_extension (collection fan-out), oauth2_manager,    *)
(* the version resolver, ngd_items_request and the filter constructors,    *)
(* and of construct_response of src/Azure/function_app.py.                 *)
(*                                                                         *)
(* A Python dict is a TLA+ function whose DOMAIN is the dict's key set, so *)
(* the code's duck typing ("does the response have a 'code' key") is kept. *)
(* An optional int argument (None or a number) is a record [some, v].      *)
(***************************************************************************)
EXTENDS Integers, Sequences, FiniteSets, TLC

VARIABLES
    pc,                   \* position of the composed call
    stack,                \* the composition, outermost wrapper first
    result,               \* what the outermost wrapper returned (or raised)
    upstream,             \* behaviour of the wrapped function / upstream API
    calls,                \* history: query parameters of every inner call of limit_extension
    failures,             \* history: the error payloads those calls answered, each with the number of calls made by then
    limit,                \* limit_extension argument
    request_limit,        \* limit_extension argument
    caller_query_params,  \* the caller's query_params dict
    query_params,         \* limit_extension's local copy
    features,             \* limit_extension accumulator
    batch_count,
    final_batchsize,
    request_count,
    offset,
    ACCESS_TOKEN,         \* os.environ['ACCESS_TOKEN'], shared by all invocations (0 is '')
    credentials_ok,       \* whether the token endpoint accepts CLIENT_ID / CLIENT_SECRET
    valid_tokens,         \* the tokens the upstream API currently accepts
    issued,               \* number of tokens the token endpoint has handed out
    apc,                  \* position of each invocation of oauth2_manager.wrapper
    caller_headers,       \* per invocation: the caller's headers dict
    headers,              \* per invocation: the local headers dict
    access_token,         \* per invocation: the local access_token
    response,             \* per invocation: the local response
    delegate_calls,       \* history, per invocation: headers of every call of func
    token_calls,          \* history, per invocation: outcome of every get_access_token call
    wkt,                  \* multigeometry_search_extension argument
    hierarchical_output,  \* multigeometry_search_extension argument
    partial_geoms,        \* the exploded geometry
    search_area,          \* loop index over partial_geoms
    search_areas,         \* the tagged results of the parts so far
    geom_calls,           \* history: the wkt argument of every call of func
    geom_responses,       \* history: what func answered to each of those calls
    collection,           \* multiple_collections_extension argument, a list of names
    use_latest_collection,\* multiple_collections_extension argument
    col_list,             \* the list the fan-out loops over (line 568)
    col_index,            \* loop index over col_list
    results,              \* the dict of line 570, as the list of its (key, value) items
    col_calls,            \* history: the collection argument of every call of func
    col_responses,        \* history: what func answered to each of those calls
    catalog,              \* the ids of the upstream collections catalog
    lookup,               \* what get_latest_collection_versions returned
    items_args,           \* ngd_items_request arguments
    items_requests,       \* history: every GET of ngd_items_request
    params,               \* construct_filter_param argument, the list of its (key, value) items
    bbox,                 \* construct_bbox_filter arguments
    request,              \* construct_response: the schema class of the route and whether the parameters load
    http_response         \* construct_response: the HttpResponse returned

limitVars == <<limit, request_limit, caller_query_params, query_params,
               features, batch_count, final_batchsize, request_count, offset>>

authVars == <<ACCESS_TOKEN, credentials_ok, valid_tokens, issued, apc, caller_headers, headers,
              access_token, response, delegate_calls, token_calls>>

geomVars == <<wkt, hierarchical_output, partial_geoms, search_area, search_areas,
              geom_calls, geom_responses>>

colVars == <<collection, use_latest_collection, col_list, col_index, results, col_calls,
             col_responses>>

itemsVars == <<catalog, lookup, items_args, items_requests>>

filterVars == <<params, bbox>>

routeVars == <<request, http_response>>

nonAuthVars == <<pc, stack, result, upstream, calls, failures, filterVars, routeVars, limitVars, geomVars, colVars,
                 itemsVars>>

vars == <<pc, stack, result, upstream, calls, failures, filterVars, routeVars, limitVars, authVars, geomVars, colVars,
          itemsVars>>

----------------------------------------------------------------------------
(* Bounds of the model *)

MaxLimitSteps == 5        \* limit arguments lie around 0, 50, ..., 50 * MaxLimitSteps
MaxRequestLimit == 3      \* explicit request_limit arguments lie in -1 .. MaxRequestLimit
MaxTotalSteps == 6        \* upstream totals lie around 0, 50, ..., 50 * MaxTotalSteps
MaxInvocations == 2       \* concurrent invocations of the oauth2_manager wrapper
MaxIssued == 4            \* tokens the token endpoint hands out in one run
MaxParts == 3             \* atomic parts of an input geometry
MaxFeatureId == 3         \* feature ids a part of the geometry fan-out can return
MaxCollections == 2       \* names in the list of a collection fan-out

(* Program constants *)

PageSize == 100               \* divmod(limit, 100) and offset += 100
DefaultRequestLimit == 50     \* request_limit: int = 50

(* No input of the model justifies this many inner calls of one pagination *)
MaxCalls == MaxRequestLimit + ((50 * MaxLimitSteps + 1) \div PageSize) + 3

----------------------------------------------------------------------------
(* Python values *)

None == [some |-> FALSE, v |-> 0]
Some(x) == [some |-> TRUE, v |-> x]
Truthy(o) == o.some /\ o.v # 0

Min(a, b) == IF a <= b THEN a ELSE b
Max(a, b) == IF a >= b THEN a ELSE b

EmptyDict == [k \in {} |-> 0]
Has(d, k) == k \in DOMAIN d
DictSet(d, k, x) == [j \in (DOMAIN d) \cup {k} |-> IF j = k THEN x ELSE d[j]]
\* the function writing into the caller's own dict
CallerDict_Shared(own, copy) == copy

\* what the caller's dict holds once a function that works on a copy of it
\* (lines 130, 240-242, 346) has written into the copy
CallerDict(own, copy) == own

DictPop(d, k) == [j \in (DOMAIN d) \ {k} |-> d[j]]

Range(s) == {s[i] : i \in 1..Len(s)}

\* no bbox_tuple argument
NoTuple == [some |-> FALSE, v |-> <<>>]

IdleBbox ==
    bbox = [bbox_tuple |-> NoTuple, xmin |-> None, ymin |-> None, xmax |-> None, ymax |-> None]

IdleRoute ==
    /\ request = [schema |-> "", valid |-> TRUE]
    /\ http_response = [status_code |-> 0, body |-> EmptyDict]

IdleFilters == params = <<>> /\ IdleBbox /\ IdleRoute

----------------------------------------------------------------------------
(* The wrapped function as limit_extension sees it *)

\* a feature as the upstream returns it: a dict with an id and properties
Feature(id) == [id |-> id, properties |-> EmptyDict]

\* the features at upstream positions off .. off + n - 1
Positions(off, n) == [i \in 1..n |-> Feature(off + i - 1)]

\* a success page of the items endpoint (add_metadata = False)
Page(fts, next) ==
    [type |-> "FeatureCollection", features |-> fts,
     numberReturned |-> Len(fts), links |-> IF next THEN {"self", "next"} ELSE {"self"}]

ErrorPayload(code, description, errorSource) ==
    [code |-> code, description |-> description, errorSource |-> errorSource]

\* page size the upstream serves for the given query parameters
PageCap(qp) == IF Has(qp, "limit") THEN Min(qp["limit"], PageSize) ELSE PageSize

\* an upstream holding `total' features at positions 0 .. total-1
StorePage(total, qp) ==
    LET off == qp["offset"]
        n   == Max(0, Min(PageCap(qp), total - off))
    IN  Page(Positions(off, n), off + n < total)

UpstreamErrorCodes == {200, 401, 404}

\* every answer the wrapped function can give to one call: the pages of a
\* store ("store"), those pages or an error ("flaky"), or anything ("any")
InnerResponses(qp) ==
    IF upstream.kind = "store"
    THEN {StorePage(upstream.total, qp)}
    ELSE IF upstream.kind = "flaky"
    THEN {StorePage(upstream.total, qp), ErrorPayload(404, "upstream", "OS NGD API")}
    ELSE {Page(Positions(qp["offset"], n), nx) :
              n \in {0, Min(1, Max(0, PageCap(qp))), Max(0, PageCap(qp))}, nx \in BOOLEAN}
         \cup {ErrorPayload(c, "upstream", "OS NGD API") : c \in UpstreamErrorCodes}

----------------------------------------------------------------------------
(* Returning to the caller of a wrapper *)

Raised(e) == [raised |-> e]

\* where control goes when the wrapper `layer' returns: to the wrapper
\* composed around it (lines 631-645), or to the caller of the composition
CallerPosition(layer) ==
    LET i == CHOOSE j \in 1..Len(stack) : stack[j] = layer
    IN  IF i = 1 THEN "done"
        ELSE IF stack[i - 1] = "geom" THEN "geom_recv"
        ELSE IF stack[i - 1] = "limit" THEN "limit_recv"
        ELSE "col_recv"

\* where control goes when the wrapper `layer' calls func: to the wrapper it
\* was composed around, or to the passing of the keyword arguments to
\* ngd_items_request
InnerPosition(layer) ==
    LET i == CHOOSE j \in 1..Len(stack) : stack[j] = layer
    IN  IF stack[i + 1] = "items" THEN "bind" ELSE stack[i + 1]

Contains(st, layer) == \E i \in 1..Len(st) : st[i] = layer

\* whether layer a is composed around layer b
Around(a, b) ==
    \E i \in 1..Len(stack) : \E j \in 1..Len(stack) : i < j /\ stack[i] = a /\ stack[j] = b

\* the wrapper `layer' returns resp
ReturnFrom(layer, resp) ==
    /\ result' = resp
    /\ pc' = CallerPosition(layer)

\* an exception is caught by no wrapper
Raise(e) ==
    /\ result' = Raised(e)
    /\ pc' = "done"

----------------------------------------------------------------------------
(* limit_extension.wrapper *)

\* client errors taken for pages
IsErrorResponse_ServerOnly(r) == Has(r, "code") /\ r.code >= 500

\* line 376, 507: json_response.get('code') and json_response['code'] >= 400
IsErrorResponse(r) == Has(r, "code") /\ r.code # 0 /\ r.code >= 400

OffsetError ==
    ErrorPayload(400, "'offset' is not a valid attribute for functions using this Catalyst wrapper.",
                 "Catalyst Wrapper")

\* the check of line 361 left out
NoBoundGiven_Unchecked == FALSE

\* line 361: not limit and not request_limit
NoBoundGiven == ~Truthy(limit) /\ ~Truthy(request_limit)

\* the count of an earlier call of the wrapper carried into this one
FirstRequestCount_Carried(earlier) == earlier

\* line 358: request_count is a local of the call and starts at 0, whatever
\* an earlier call of the same wrapper counted
FirstRequestCount(earlier) == 0

\* lines 346-362
LimitEnter ==
    /\ pc = "limit"
    /\ query_params' = caller_query_params
    /\ IF Has(caller_query_params, "offset")
       THEN /\ ReturnFrom("limit", OffsetError)
            /\ UNCHANGED <<features, batch_count, final_batchsize, request_count, offset>>
       ELSE /\ features' = <<>>
            /\ batch_count' = IF Truthy(limit) THEN Some(limit.v \div PageSize) ELSE None
            /\ final_batchsize' = IF Truthy(limit) THEN Some(limit.v % PageSize) ELSE None
            /\ request_count' = FirstRequestCount(request_count)
            /\ offset' = 0
            /\ IF NoBoundGiven
               THEN Raise("AttributeError")
               ELSE pc' = "limit_loop" /\ UNCHANGED result
    /\ UNCHANGED <<stack, upstream, calls, failures, filterVars, routeVars, limit, request_limit, caller_query_params>>
    /\ UNCHANGED <<authVars, geomVars, colVars, itemsVars>>

\* the request count compared one too late
LoopCondition_OffByOne ==
    /\ ~(request_limit.some /\ request_count = request_limit.v + 1)
    /\ (~Truthy(limit) \/ offset < limit.v)

\* the test of the offset against the limit left out
LoopCondition_NoLimitCheck ==
    ~(request_limit.some /\ request_count = request_limit.v)

\* line 364: request_count != request_limit and (not limit or offset < limit)
LoopCondition ==
    /\ ~(request_limit.some /\ request_count = request_limit.v)
    /\ (~Truthy(limit) \/ offset < limit.v)

\* the last batch not cut down to final_batchsize
NextQueryParams_FullLastBatch == DictSet(query_params, "offset", offset)

\* lines 366-368
NextQueryParams ==
    LET q == IF batch_count.some /\ request_count = batch_count.v
             THEN DictSet(query_params, "limit", final_batchsize.v)
             ELSE query_params
    IN  DictSet(q, "offset", offset)

\* line 379: features += json_response['features']
Accumulate(fts, page) == fts \o page

\* lines 376-384: what the loop does with the answer of func
LimitReceive(json_response) ==
    /\ failures' = IF Has(json_response, "code") /\ json_response.code >= 400
                    THEN Append(failures, [at |-> Len(calls'), payload |-> json_response])
                    ELSE failures
    /\ IF IsErrorResponse(json_response)
       THEN /\ ReturnFrom("limit", json_response)
            /\ UNCHANGED <<request_count, features, offset>>
       ELSE /\ request_count' = request_count + 1
            /\ IF ~Has(json_response, "features")
               THEN /\ Raise("KeyError")
                    /\ UNCHANGED <<features, offset>>
               ELSE /\ features' = Accumulate(features, json_response.features)
                    /\ IF ~Has(json_response, "links")
                       THEN Raise("KeyError") /\ UNCHANGED offset
                       ELSE /\ UNCHANGED result
                            /\ IF "next" \notin json_response.links
                               THEN pc' = "limit_exit" /\ UNCHANGED offset
                               ELSE pc' = "limit_loop" /\ offset' = offset + PageSize

\* lines 364-384, one round of the loop around a function that answers at once
LimitFetch ==
    /\ pc = "limit_loop"
    /\ LoopCondition
    /\ request_count < MaxCalls
    /\ query_params' = NextQueryParams
    /\ calls' = Append(calls, query_params')
    /\ \E json_response \in InnerResponses(query_params') : LimitReceive(json_response)
    /\ caller_query_params' = CallerDict(caller_query_params, query_params')
    /\ UNCHANGED <<stack, upstream, limit, request_limit, batch_count, final_batchsize>>
    /\ UNCHANGED <<filterVars, routeVars, authVars, geomVars, colVars, itemsVars>>

\* lines 364-375: the call of func, a wrapper or ngd_items_request
LimitCallInner ==
    /\ pc = "limit_loop"
    /\ LoopCondition
    /\ request_count < MaxCalls
    /\ query_params' = NextQueryParams
    /\ calls' = Append(calls, query_params')
    /\ caller_query_params' = CallerDict(caller_query_params, query_params')
    /\ pc' = InnerPosition("limit")
    /\ UNCHANGED <<stack, result, upstream, failures, limit, request_limit, features,
                   batch_count, final_batchsize, request_count, offset>>
    /\ UNCHANGED <<filterVars, routeVars, authVars, geomVars, colVars, itemsVars>>

\* lines 376-384 on the answer of the function inside
LimitRecv ==
    /\ pc = "limit_recv"
    /\ LimitReceive(result)
    /\ UNCHANGED <<stack, upstream, calls, limit, request_limit, caller_query_params,
                   query_params, batch_count, final_batchsize>>
    /\ UNCHANGED <<filterVars, routeVars, authVars, geomVars, colVars, itemsVars>>

\* lines 386-394; kwargs.get('collection') is the name the collection fan-out
\* around the wrapper passed, else the caller's keyword argument, else None
LimitReturn ==
    /\ \/ pc = "limit_exit"
       \/ pc = "limit_loop" /\ ~LoopCondition
    /\ ReturnFrom("limit",
           [type |-> "FeatureCollection", numberOfRequests |-> request_count,
            numberReturned |-> Len(features), timeStamp |-> "now",
            collection |-> IF Around("col", "limit") THEN col_list[col_index + 1]
                           ELSE IF collection = <<>> THEN "None"
                           ELSE IF Contains(stack, "col") THEN collection
                           ELSE collection[1],
            features |-> features])
    /\ UNCHANGED <<stack, upstream, calls, failures, filterVars, routeVars, limitVars, authVars, geomVars, colVars, itemsVars>>

----------------------------------------------------------------------------
(* State of the layers a specification does not exercise *)

Invocations == 1..MaxInvocations

IdleAuth ==
    /\ ACCESS_TOKEN = 0
    /\ credentials_ok = TRUE
    /\ valid_tokens = {}
    /\ issued = 0
    /\ apc = [p \in Invocations |-> "idle"]
    /\ caller_headers = [p \in Invocations |-> EmptyDict]
    /\ headers = [p \in Invocations |-> EmptyDict]
    /\ access_token = [p \in Invocations |-> 0]
    /\ response = [p \in Invocations |-> EmptyDict]
    /\ delegate_calls = [p \in Invocations |-> <<>>]
    /\ token_calls = [p \in Invocations |-> <<>>]

IdleGeom ==
    /\ wkt = [valid |-> FALSE, geom |-> EmptyDict]
    /\ hierarchical_output = FALSE
    /\ partial_geoms = <<>>
    /\ search_area = 0
    /\ search_areas = <<>>
    /\ geom_calls = <<>>
    /\ geom_responses = <<>>

IdleCol ==
    /\ collection = <<>>
    /\ use_latest_collection = FALSE
    /\ col_list = <<>>
    /\ col_index = 0
    /\ results = <<>>
    /\ col_calls = <<>>
    /\ col_responses = <<>>

\* the ids of the catalog the compositions run against
CollectionIds == {"a-1", "a-2", "b-1"}

IdleItems ==
    /\ catalog = CollectionIds
    /\ lookup = EmptyDict
    /\ items_args = [collection |-> "", use_latest_collection |-> FALSE,
                     query_params |-> EmptyDict, filter_params |-> <<>>, wkt |-> "",
                     add_metadata |-> TRUE]
    /\ items_requests = <<>>

IdleLimit ==
    /\ pc = "done"
    /\ stack = <<>>
    /\ result = EmptyDict
    /\ upstream = [kind |-> "any", total |-> 0]
    /\ calls = <<>>
    /\ failures = <<>>
    /\ IdleFilters
    /\ limit = None
    /\ request_limit = None
    /\ caller_query_params = EmptyDict
    /\ query_params = EmptyDict
    /\ features = <<>>
    /\ batch_count = None
    /\ final_batchsize = None
    /\ request_count = 0
    /\ offset = 0

----------------------------------------------------------------------------
(* Inputs of a pagination call *)

StepValues(steps) == {x \in {50 * k + d : k \in 0..steps, d \in {-1, 0, 1}} : x >= -1}

LimitArgs == {None} \cup {Some(x) : x \in StepValues(MaxLimitSteps)}

RequestLimitArgs ==
    {None, Some(DefaultRequestLimit)} \cup {Some(x) : x \in -1..MaxRequestLimit}

CallerQueryParams ==
    {EmptyDict, [limit |-> 10], [offset |-> 10], [limit |-> 10, offset |-> 10]}

Upstreams ==
    {[kind |-> "any", total |-> 0]}
    \cup {[kind |-> "store", total |-> n] : n \in StepValues(MaxTotalSteps) \ {-1}}

InitLimit ==
    /\ pc = "limit"
    /\ stack = <<"limit">>
    /\ result = EmptyDict
    /\ upstream \in Upstreams
    /\ calls = <<>>
    /\ failures = <<>>
    /\ IdleFilters
    /\ limit \in LimitArgs
    /\ request_limit \in RequestLimitArgs
    \* an upstream that answers at will is paired with the small request limits
    /\ upstream.kind = "any" => request_limit # Some(DefaultRequestLimit)
    /\ caller_query_params \in CallerQueryParams
    /\ query_params = EmptyDict
    /\ features = <<>>
    /\ batch_count = None
    /\ final_batchsize = None
    /\ request_count = 0
    /\ offset = 0
    /\ IdleAuth
    /\ IdleGeom
    /\ IdleCol
    /\ IdleItems

NextLimit == LimitEnter \/ LimitFetch \/ LimitReturn

SpecLimit == InitLimit /\ [][NextLimit]_vars

----------------------------------------------------------------------------
(* Properties of limit_extension, checked under SpecLimit *)

Ceil100(n) == (n + PageSize - 1) \div PageSize

Finished == pc = "done"
Succeeded == Finished /\ Has(result, "features")

\* the caller passes no limit/offset, the upstream holds at least `limit'
\* features and request_limit allows the ceil(limit/100) requests
C1_Case ==
    /\ limit.some /\ limit.v >= 1
    /\ request_limit.some /\ request_limit.v >= Ceil100(limit.v)
    /\ caller_query_params = EmptyDict
    /\ upstream.kind = "store" /\ upstream.total >= limit.v

\* C1: with limit L >= 1, request_limit >= ceil(L/100), no caller limit/offset
\* and an upstream of at least L features served in pages of min(limit, 100),
\* the wrapper makes exactly ceil(L/100) inner calls at offsets 0, 100, ...,
\* the last one with limit = L mod 100 when that is not 0, and returns
\* numberOfRequests = ceil(L/100) and exactly L features.
C1_ExactPagination ==
    (Finished /\ C1_Case) =>
        /\ Len(calls) = Ceil100(limit.v)
        /\ \A k \in 1..Len(calls) : calls[k]["offset"] = PageSize * (k - 1)
        /\ (limit.v % PageSize # 0 =>
                /\ Has(calls[Len(calls)], "limit")
                /\ calls[Len(calls)]["limit"] = limit.v % PageSize)
        /\ Has(result, "numberOfRequests")
        /\ result.numberOfRequests = Ceil100(limit.v)
        /\ result.features = Positions(0, limit.v)

C1_Witness ==
    /\ Finished /\ C1_Case
    /\ limit.v = 250
    /\ Len(calls) = 3 /\ calls[3]["limit"] = 50 /\ calls[3]["offset"] = 200
    /\ Len(result.features) = 250

\* C2: whenever limit_extension accepts its inputs the pagination loop ends
\* after finitely many inner calls whatever the upstream answers: the loop
\* never stands ready for another call after MaxCalls calls, a number no
\* limit or request_limit of the model justifies.
C2_LoopTerminates ==
    (pc = "limit_loop" /\ LoopCondition) => request_count < MaxCalls

\* C3: with request_limit = R >= 1 the wrapper makes at most R inner calls,
\* and the returned numberOfRequests is the number of inner calls made.
C3_RequestLimitBounds ==
    (request_limit.some /\ request_limit.v >= 1) =>
        /\ Len(calls) <= request_limit.v
        /\ (Finished /\ Has(result, "numberOfRequests")) =>
                /\ result.numberOfRequests = Len(calls)
                /\ result.numberOfRequests <= request_limit.v

\* stopped by the request limit while the upstream still had more
C3_Witness ==
    /\ Finished
    /\ request_limit = Some(2) /\ ~limit.some
    /\ upstream.kind = "store" /\ upstream.total >= 250
    /\ Len(calls) = 2 /\ result.numberOfRequests = 2

\* C4: with limit = L >= 1 and pages of at most min(limit parameter, 100)
\* features, numberReturned = len(features) <= L.
C4_LimitBoundsFeatures ==
    (Succeeded /\ limit.some /\ limit.v >= 1) =>
        /\ result.numberReturned = Len(result.features)
        /\ Len(result.features) <= limit.v

\* full pages under an upstream that answers at will reach the limit exactly
C4_Witness ==
    /\ Succeeded
    /\ upstream.kind = "any"
    /\ limit = Some(151) /\ ~request_limit.some
    /\ Len(result.features) = 151 /\ Len(calls) = 2

\* C5: limit = None and request_limit = None fails with a validation error
\* (the AttributeError of line 362, or the 'offset' payload when the caller
\* also passed an offset) and no inner call is made.
C5_NoBoundFails ==
    (~limit.some /\ ~request_limit.some) =>
        /\ calls = <<>>
        /\ Finished =>
              \/ result = Raised("AttributeError")
              \/ Has(caller_query_params, "offset") /\ result = OffsetError

C5_Witness ==
    /\ Finished
    /\ ~limit.some /\ ~request_limit.some
    /\ result = Raised("AttributeError")
    /\ calls = <<>>

\* C21: a failure is returned by the component that detects it as an error
\* payload and is never raised; here for limit_extension called with
\* neither limit nor request_limit.
C21_FailuresArePayloads ==
    (Finished /\ NoBoundGiven) =>
        /\ ~Has(result, "raised")
        /\ Has(result, "code") /\ Has(result, "description")

\* C38: limit is a maximum on the number of features for every non-negative
\* value: a call with limit = 0 and request_limit left at its default of 50
\* returns a result with zero features.
C38_ZeroLimit ==
    (Succeeded /\ limit = Some(0) /\ request_limit = Some(DefaultRequestLimit)) =>
        Len(result.features) = 0

\* C33: the features limit_extension accumulates from an upstream result
\* sequence form a gap-free prefix of it: no upstream feature between the
\* first and the last returned one is skipped, also when the caller passes
\* its own 'limit' query parameter below 100.
C33_GapFreePrefix ==
    (Succeeded /\ upstream.kind = "store") =>
        result.features = Positions(0, Len(result.features))

----------------------------------------------------------------------------
(* oauth2_manager.wrapper, one invocation p; the invocations of one process *)
(* share os.environ and interleave between their statements                 *)

BearerOf(h) == h["Authorization"]

\* a success of the delegate (ngd_items_request, add_metadata = True)
DelegateSuccess == DictSet(Page(<<>>, FALSE), "numberOfRequests", 1)

Unauthorized == ErrorPayload(401, "unauthorized", "OS NGD API")

\* the upstream rejects a bearer token it does not hold valid with 401
DelegateResponses(h) ==
    IF BearerOf(h) \in valid_tokens
    THEN {DelegateSuccess, ErrorPayload(404, "upstream", "OS NGD API")}
    ELSE {Unauthorized}

\* line 136: response.get('code') != 401
Is401(r) == Has(r, "code") /\ r.code = 401

CredentialsError ==
    ErrorPayload(401, "Missing or invalid CLIENT_ID and/or CLIENT_SECRET.", "Catalyst Wrapper")

\* lines 130-134
AuthBegin(p) ==
    /\ apc[p] = "start"
    /\ access_token' = [access_token EXCEPT ![p] = ACCESS_TOKEN]
    /\ headers' = [headers EXCEPT ![p] = DictSet(caller_headers[p], "Authorization", ACCESS_TOKEN)]
    /\ caller_headers' = [caller_headers EXCEPT ![p] = CallerDict(@, headers'[p])]
    /\ apc' = [apc EXCEPT ![p] = "call"]
    /\ UNCHANGED <<ACCESS_TOKEN, credentials_ok, valid_tokens, issued, response,
                   delegate_calls, token_calls>>
    /\ UNCHANGED nonAuthVars

\* lines 135-138
AuthFirstCall(p) ==
    /\ apc[p] = "call"
    /\ \E r \in DelegateResponses(headers[p]) :
        /\ response' = [response EXCEPT ![p] = r]
        /\ delegate_calls' = [delegate_calls EXCEPT
                                ![p] = Append(@, [headers |-> headers[p], response |-> r])]
        /\ apc' = [apc EXCEPT ![p] = IF Is401(r) THEN "refresh" ELSE "done"]
    /\ UNCHANGED <<ACCESS_TOKEN, credentials_ok, valid_tokens, issued, headers,
                   access_token, token_calls>>
    /\ UNCHANGED caller_headers
    /\ UNCHANGED nonAuthVars

\* the delegate called again with the old token after the rejection
RejectedPosition_Retry == "retry"

\* lines 147-152: the payload is returned
RejectedPosition == "done"

\* lines 139-152 with get_access_token (lines 96-121): a new token, the
\* PermissionError of a 401, or another fault of the token request
AuthRefresh(p) ==
    /\ apc[p] = "refresh"
    /\ \/ /\ credentials_ok
          /\ issued < MaxIssued
          /\ issued' = issued + 1
          /\ valid_tokens' = valid_tokens \cup {issued + 1}
          /\ access_token' = [access_token EXCEPT ![p] = issued + 1]
          /\ token_calls' = [token_calls EXCEPT
                               ![p] = Append(@, [outcome |-> "token", token |-> issued + 1])]
          /\ apc' = [apc EXCEPT ![p] = "store"]
          /\ UNCHANGED response
       \/ /\ ~credentials_ok
          /\ token_calls' = [token_calls EXCEPT
                               ![p] = Append(@, [outcome |-> "PermissionError", token |-> 0])]
          /\ response' = [response EXCEPT ![p] = CredentialsError]
          /\ apc' = [apc EXCEPT ![p] = RejectedPosition]
          /\ UNCHANGED <<issued, valid_tokens, access_token>>
       \/ /\ token_calls' = [token_calls EXCEPT
                               ![p] = Append(@, [outcome |-> "fault", token |-> 0])]
          /\ response' = [response EXCEPT ![p] = Raised("KeyError")]
          /\ apc' = [apc EXCEPT ![p] = "done"]
          /\ UNCHANGED <<issued, valid_tokens, access_token>>
    /\ UNCHANGED <<ACCESS_TOKEN, credentials_ok, headers, delegate_calls>>
    /\ UNCHANGED caller_headers
    /\ UNCHANGED nonAuthVars

\* lines 153-154
AuthStore(p) ==
    /\ apc[p] = "store"
    /\ ACCESS_TOKEN' = access_token[p]
    /\ headers' = [headers EXCEPT ![p] = DictSet(@, "Authorization", access_token[p])]
    /\ caller_headers' = [caller_headers EXCEPT ![p] = CallerDict(@, headers'[p])]
    /\ apc' = [apc EXCEPT ![p] = "retry"]
    /\ UNCHANGED <<credentials_ok, valid_tokens, issued, access_token, response,
                   delegate_calls, token_calls>>
    /\ UNCHANGED nonAuthVars

\* a 401 of the second call sent back to the refresh
RetryPosition_Again(r) == IF Is401(r) THEN "refresh" ELSE "done"

\* line 156: return response, whatever it is
RetryPosition(r) == "done"

\* lines 155-156
AuthSecondCall(p) ==
    /\ apc[p] = "retry"
    /\ \E r \in DelegateResponses(headers[p]) :
        /\ response' = [response EXCEPT ![p] = r]
        /\ delegate_calls' = [delegate_calls EXCEPT
                                ![p] = Append(@, [headers |-> headers[p], response |-> r])]
        /\ apc' = [apc EXCEPT ![p] = RetryPosition(r)]
    /\ UNCHANGED <<ACCESS_TOKEN, credentials_ok, valid_tokens, issued, headers,
                   access_token, token_calls>>
    /\ UNCHANGED caller_headers
    /\ UNCHANGED nonAuthVars

\* the upstream stops accepting a token (a token times out after 5 minutes)
TokenExpires ==
    /\ \E t \in valid_tokens : valid_tokens' = valid_tokens \ {t}
    /\ UNCHANGED <<ACCESS_TOKEN, credentials_ok, issued, apc, headers, access_token,
                   response, delegate_calls, token_calls>>
    /\ UNCHANGED caller_headers
    /\ UNCHANGED nonAuthVars

\* the headers argument: none, or a dict of the caller's
CallerHeaders == {EmptyDict, [Accept |-> 1]}

InitAuth ==
    /\ IdleLimit
    /\ IdleGeom
    /\ IdleCol
    /\ IdleItems
    /\ issued = 1
    /\ ACCESS_TOKEN \in {0, 1}
    /\ valid_tokens \in {{}, {1}}
    /\ credentials_ok \in BOOLEAN
    /\ \E n \in Invocations : apc = [p \in Invocations |-> IF p <= n THEN "start" ELSE "idle"]
    /\ \E h \in CallerHeaders : caller_headers = [p \in Invocations |-> h]
    /\ headers = [p \in Invocations |-> EmptyDict]
    /\ access_token = [p \in Invocations |-> 0]
    /\ response = [p \in Invocations |-> EmptyDict]
    /\ delegate_calls = [p \in Invocations |-> <<>>]
    /\ token_calls = [p \in Invocations |-> <<>>]

NextAuth ==
    \/ \E p \in Invocations : AuthBegin(p)
    \/ \E p \in Invocations : AuthFirstCall(p)
    \/ \E p \in Invocations : AuthRefresh(p)
    \/ \E p \in Invocations : AuthStore(p)
    \/ \E p \in Invocations : AuthSecondCall(p)
    \/ TokenExpires

SpecAuth == InitAuth /\ [][NextAuth]_vars

----------------------------------------------------------------------------
(* Properties of oauth2_manager, checked under SpecAuth *)

Refreshed(p) == Len(token_calls[p]) >= 1 /\ token_calls[p][1].outcome = "token"
Alone(p) == \A q \in Invocations \ {p} : apc[q] = "idle"

\* C7: one call of the wrapper calls its delegate at most twice and the token
\* endpoint at most once; the second delegate call happens exactly when the
\* first answer was 401 and the refresh gave a token, it carries that token,
\* ACCESS_TOKEN then holds it, and a second 401 is returned as the result.
C7_RetryOnce ==
    \A p \in Invocations :
        /\ Len(delegate_calls[p]) <= 2
        /\ Len(token_calls[p]) <= 1
        /\ Len(delegate_calls[p]) = 2 =>
              /\ Is401(delegate_calls[p][1].response)
              /\ Refreshed(p)
              /\ BearerOf(delegate_calls[p][2].headers) = token_calls[p][1].token
              /\ Alone(p) => ACCESS_TOKEN = token_calls[p][1].token
        /\ (apc[p] = "done" /\ Len(delegate_calls[p]) >= 1
              /\ Is401(delegate_calls[p][1].response) /\ Refreshed(p)) =>
              /\ Len(delegate_calls[p]) = 2
              /\ response[p] = delegate_calls[p][2].response
        /\ (apc[p] = "done" /\ Len(delegate_calls[p]) = 1) =>
              \/ ~Is401(delegate_calls[p][1].response) /\ token_calls[p] = <<>>
              \/ Is401(delegate_calls[p][1].response) /\ Len(token_calls[p]) = 1
                    /\ ~Refreshed(p)

\* a second 401 after the refresh is the result
C7_Witness ==
    \E p \in Invocations :
        /\ apc[p] = "done"
        /\ Len(delegate_calls[p]) = 2 /\ Len(token_calls[p]) = 1
        /\ Is401(delegate_calls[p][1].response)
        /\ Is401(delegate_calls[p][2].response)
        /\ response[p] = Unauthorized
        /\ ACCESS_TOKEN = token_calls[p][1].token

\* C8: two concurrent invocations that both got 401 for the same stale token
\* do not each fetch a fresh token: at most one of them refreshes.
C8_SingleFlight ==
    \A p, q \in Invocations :
        (/\ p # q
         /\ Len(delegate_calls[p]) >= 1 /\ Len(delegate_calls[q]) >= 1
         /\ BearerOf(delegate_calls[p][1].headers) = BearerOf(delegate_calls[q][1].headers))
        => ~(Refreshed(p) /\ Refreshed(q))

Rejected(p) == Len(token_calls[p]) >= 1 /\ token_calls[p][1].outcome = "PermissionError"

\* C29: when the token endpoint rejects the client credentials during the
\* refresh after a 401, the wrapper has returned a payload with code 401 and
\* errorSource 'Catalyst Wrapper', it has called its delegate once only, and
\* (no other invocation running) ACCESS_TOKEN still holds the token that was
\* sent with that call.
C29_RejectedCredentials ==
    \A p \in Invocations :
        Rejected(p) =>
            /\ apc[p] = "done"
            /\ Has(response[p], "code") /\ response[p].code = 401
            /\ Has(response[p], "errorSource")
            /\ response[p].errorSource = "Catalyst Wrapper"
            /\ Has(response[p], "description")
            /\ Len(delegate_calls[p]) = 1
            /\ Is401(delegate_calls[p][1].response)
            /\ Len(token_calls[p]) = 1
            /\ Alone(p) => ACCESS_TOKEN = BearerOf(delegate_calls[p][1].headers)

\* a stale token 1 is answered 401, the credentials are rejected, token 1 stays
C29_Witness ==
    \E p \in Invocations :
        /\ Rejected(p) /\ Alone(p)
        /\ apc[p] = "done"
        /\ response[p] = CredentialsError
        /\ ACCESS_TOKEN = 1
        /\ Len(delegate_calls[p]) = 1

----------------------------------------------------------------------------
(* multigeometry_search_extension *)

\* a shapely geometry: a Point, LineString or Polygon (atom), or a
\* multi-geometry / geometry collection with its .geoms
Atom(n) == [atom |-> TRUE, n |-> n, geoms |-> <<>>]
Multi(gs) == [atom |-> FALSE, n |-> 0, geoms |-> gs]

RECURSIVE ExplodeAll(_)
RECURSIVE multilevel_explode(_)

\* lines 425-429: the exploded sub-geometries, concatenated in order
ExplodeAll(lower_shapes) ==
    IF lower_shapes = <<>> THEN <<>>
    ELSE multilevel_explode(Head(lower_shapes)) \o ExplodeAll(Tail(lower_shapes))

\* lines 415-429
multilevel_explode(shape) ==
    IF shape.atom THEN <<shape>> ELSE ExplodeAll(shape.geoms)

\* a searchAreaNumber is a number n, or a list of numbers (line 465)
Scalar(n) == [list |-> FALSE, v |-> <<n>>]

\* the earlier search area replaced by the current one
AppendSearchArea_Overwrite(n, search_area_number) ==
    [list |-> TRUE, v |-> <<search_area_number>>]

\* lines 465-466: n = [n] if not isinstance(n, list) else n; n.append(...)
AppendSearchArea(n, search_area_number) ==
    [list |-> TRUE, v |-> Append(n.v, search_area_number)]

\* lines 457-458
TagFeature(feat, search_area_number) ==
    DictSet(DictSet(feat, "searchAreaNumber", Scalar(search_area_number)),
            "properties",
            DictSet(feat.properties, "searchAreaNumber", Scalar(search_area_number)))

\* line 463: the indices of the merged features with the id of feat
IndicesOf(geojson_fts, feat) ==
    {v \in 1..Len(geojson_fts) : geojson_fts[v].id = feat.id}

MinOf(S) == CHOOSE x \in S : \A y \in S : x <= y

\* lines 462-471 for one feature of the area; acc holds geojson_fts, ids and
\* new_features, and the fault of line 463 once it has happened
MergeFeature(acc, feat) ==
    IF acc.fault # "" THEN acc
    ELSE IF feat.id \in Range(acc.ids)
    THEN IF IndicesOf(acc.geojson_fts, feat) = {}
         THEN [acc EXCEPT !.fault = "IndexError"]
         ELSE LET index == MinOf(IndicesOf(acc.geojson_fts, feat))
                  n == acc.geojson_fts[index].searchAreaNumber
              IN  [acc EXCEPT !.geojson_fts[index].searchAreaNumber =
                                  AppendSearchArea(n, feat.searchAreaNumber.v[1])]
    ELSE [acc EXCEPT !.new_features = Append(@, feat),
                     !.ids = Append(@, feat.id)]

RECURSIVE MergeFeatures(_, _, _, _)

\* the loop of lines 461-471 over the features first .. last of the area, in
\* order: the first half, then the second half on what the first left
MergeFeatures(acc, fts, first, last) ==
    IF first > last THEN acc
    ELSE IF first = last THEN MergeFeature(acc, fts[first])
    ELSE LET middle == (first + last) \div 2
             merged == MergeFeatures(acc, fts, first, middle)
         IN  IF merged.fault # "" THEN merged
             ELSE MergeFeatures(merged, fts, middle + 1, last)

\* all features of the area counted, not only the new ones
CountReturned_All(new_features, fts) == Len(fts)

\* line 475: geojson['numberReturned'] += len(new_features)
CountReturned(new_features, fts) == Len(new_features)

RECURSIVE FlattenFrom(_, _, _)

\* lines 451-475 from the i-th area on
FlattenFrom(acc, areas, i) ==
    IF i > Len(areas) \/ acc.fault # "" THEN acc
    ELSE LET area == areas[i] IN
         IF ~Has(area, "features") \/ ~Has(area, "numberOfRequests")
         THEN [acc EXCEPT !.fault = "KeyError"]
         ELSE LET fts == [k \in 1..Len(area.features) |->
                              TagFeature(area.features[k], area.searchAreaNumber)]
                  m   == MergeFeatures([acc EXCEPT !.new_features = <<>>], fts, 1, Len(fts))
              IN  FlattenFrom(
                      [m EXCEPT !.geojson_fts = m.geojson_fts \o m.new_features,
                                !.numberOfRequests = @ + area.numberOfRequests,
                                !.numberReturned = @ + CountReturned(m.new_features, fts)],
                      areas, i + 1)

\* lines 436-479
flatten_search_areas(areas) ==
    LET acc == FlattenFrom([geojson_fts |-> <<>>, ids |-> <<>>, new_features |-> <<>>,
                            numberOfRequests |-> 0, numberReturned |-> 0, fault |-> ""],
                           areas, 1)
    IN  IF acc.fault # "" THEN Raised(acc.fault)
        ELSE [type |-> "FeatureCollection", numberOfRequests |-> acc.numberOfRequests,
              numberReturned |-> acc.numberReturned, features |-> acc.geojson_fts,
              timeStamp |-> "now"]

InvalidGeometry ==
    [code |-> 400, description |-> "The input geometry is not valid.",
     help |-> "http://libgeos.org/specifications/wkt/", errorSource |-> "Catalyst Wrapper"]

\* lines 488-499
GeomEnter ==
    /\ pc = "geom"
    /\ IF ~wkt.valid
       THEN /\ ReturnFrom("geom", InvalidGeometry)
            /\ UNCHANGED <<partial_geoms, search_area, search_areas>>
       ELSE /\ partial_geoms' = multilevel_explode(wkt.geom)
            /\ search_areas' = <<>>
            /\ search_area' = 0
            /\ pc' = "geom_loop"
            /\ UNCHANGED result
    /\ UNCHANGED <<stack, upstream, calls, failures, filterVars, routeVars, wkt, hierarchical_output, geom_calls,
                   geom_responses>>
    /\ UNCHANGED <<limitVars, authVars, colVars, itemsVars>>

\* a result set of the wrapped function holding the features fts
ResultSet(fts, n) ==
    [type |-> "FeatureCollection", features |-> fts, numberReturned |-> Len(fts),
     numberOfRequests |-> n, timeStamp |-> "now"]

\* the search areas numbered from 1
GeomReceive_OneBased(json_response) ==
    IF IsErrorResponse(json_response)
    THEN /\ ReturnFrom("geom", json_response)
         /\ UNCHANGED <<search_area, search_areas>>
    ELSE /\ search_areas' = Append(search_areas,
                                   DictSet(json_response, "searchAreaNumber", search_area + 1))
         /\ search_area' = search_area + 1
         /\ pc' = "geom_loop"
         /\ UNCHANGED result

\* a failed part left out of the aggregation, the loop going on
GeomReceive_SkipFailedPart(json_response) ==
    /\ search_areas' =
          IF IsErrorResponse(json_response)
          THEN Append(search_areas,
                      DictSet(ResultSet(<<>>, 0), "searchAreaNumber", search_area))
          ELSE Append(search_areas,
                      DictSet(json_response, "searchAreaNumber", search_area))
    /\ search_area' = search_area + 1
    /\ pc' = "geom_loop"
    /\ UNCHANGED result

\* lines 507-510: what the loop does with the answer of func
GeomReceive(json_response) ==
    IF IsErrorResponse(json_response)
    THEN /\ ReturnFrom("geom", json_response)
         /\ UNCHANGED <<search_area, search_areas>>
    ELSE /\ search_areas' = Append(search_areas,
                                   DictSet(json_response, "searchAreaNumber", search_area))
         /\ search_area' = search_area + 1
         /\ pc' = "geom_loop"
         /\ UNCHANGED result

RECURSIVE AscendingList(_)
\* the numbers of a set as an ascending list
AscendingList(S) ==
    IF S = {} THEN <<>>
    ELSE LET m == CHOOSE x \in S : \A y \in S : x <= y
         IN  <<m>> \o AscendingList(S \ {m})

FeatureIds == 1..MaxFeatureId

\* the id lists one part can return: any set of ids in ascending order, a
\* pair in descending order, or one id twice (as concatenated pages can)
IdLists ==
    {AscendingList(S) : S \in SUBSET FeatureIds}
    \cup {<<p[1], p[2]>> : p \in {q \in FeatureIds \X FeatureIds : q[1] >= q[2]}}

FeatureLists == {[k \in 1..Len(ids) |-> Feature(ids[k])] : ids \in IdLists}

\* the wrapped function pages its features one per request and stops at the
\* first empty page
PartRequests(fts) == Len(fts) + 1

\* every answer the wrapped function can give for one part
PartResponses ==
    {ResultSet(fts, PartRequests(fts)) : fts \in FeatureLists}
    \cup {ErrorPayload(c, "upstream", "OS NGD API") : c \in {200, 404}}

\* lines 501-510, one iteration (func answering at once)
GeomIterate ==
    /\ pc = "geom_loop"
    /\ search_area < Len(partial_geoms)
    /\ geom_calls' = Append(geom_calls, partial_geoms[search_area + 1])
    /\ \E json_response \in PartResponses :
          /\ geom_responses' = Append(geom_responses, json_response)
          /\ GeomReceive(json_response)
    /\ UNCHANGED <<stack, upstream, calls, failures, filterVars, routeVars, wkt, hierarchical_output, partial_geoms>>
    /\ UNCHANGED <<limitVars, authVars, colVars, itemsVars>>

\* lines 512-520
GeomReturn ==
    /\ pc = "geom_loop"
    /\ search_area = Len(partial_geoms)
    /\ IF hierarchical_output
       THEN ReturnFrom("geom", [searchAreas |-> search_areas])
       ELSE LET geojson == flatten_search_areas(search_areas)
            IN  IF Has(geojson, "raised")
                THEN Raise(geojson.raised)
                ELSE ReturnFrom("geom", geojson)
    /\ UNCHANGED <<stack, upstream, calls, failures, filterVars, routeVars, geomVars, limitVars, authVars, colVars, itemsVars>>

PartsUpTo(k) == [i \in 1..k |-> Atom(i)]

Geometries ==
    {Atom(1), Multi(<<>>)}
    \cup {Multi(PartsUpTo(k)) : k \in 1..MaxParts}
    \cup {Multi(<<Multi(<<Atom(1)>>), Atom(2)>>),
          Multi(<<Atom(1), Multi(<<>>), Multi(<<Multi(<<Atom(2)>>)>>)>>)}

WktInputs ==
    {[valid |-> FALSE, geom |-> EmptyDict]} \cup {[valid |-> TRUE, geom |-> g] : g \in Geometries}

InitGeom ==
    /\ pc = "geom"
    /\ stack = <<"geom">>
    /\ result = EmptyDict
    /\ upstream = [kind |-> "any", total |-> 0]
    /\ calls = <<>>
    /\ failures = <<>>
    /\ IdleFilters
    /\ limit = None
    /\ request_limit = None
    /\ caller_query_params = EmptyDict
    /\ query_params = EmptyDict
    /\ features = <<>>
    /\ batch_count = None
    /\ final_batchsize = None
    /\ request_count = 0
    /\ offset = 0
    /\ IdleAuth
    /\ wkt \in WktInputs
    /\ hierarchical_output \in BOOLEAN
    /\ partial_geoms = <<>>
    /\ search_area = 0
    /\ search_areas = <<>>
    /\ geom_calls = <<>>
    /\ geom_responses = <<>>
    /\ IdleCol
    /\ IdleItems

NextGeom == GeomEnter \/ GeomIterate \/ GeomReturn

SpecGeom == InitGeom /\ [][NextGeom]_vars

----------------------------------------------------------------------------
(* Properties of the geometry fan-out, checked under SpecGeom *)

RECURSIVE SumOver(_, _)
SumOver(f, S) ==
    IF S = {} THEN 0 ELSE LET x == CHOOSE y \in S : TRUE IN f[x] + SumOver(f, S \ {x})

PartIds(i) == {search_areas[i].features[k].id : k \in 1..Len(search_areas[i].features)}
AllPartIds == UNION {PartIds(i) : i \in 1..Len(search_areas)}
\* the 0-based indices of the parts that returned the id
PartsReturning(id) == {i - 1 : i \in {j \in 1..Len(search_areas) : id \in PartIds(j)}}
DistinctWithinParts ==
    \A i \in 1..Len(search_areas) :
        Cardinality(PartIds(i)) = Len(search_areas[i].features)

Flattened ==
    /\ pc = "done" /\ ~hierarchical_output
    /\ Len(search_areas) = Len(partial_geoms) /\ wkt.valid
    /\ \A i \in 1..Len(search_areas) : Has(search_areas[i], "features")

\* C9: flattened output, ids distinct within each part: every id returned by
\* some part is on exactly one feature of the flattened list, whose top-level
\* searchAreaNumber is the part index if one part returned it and otherwise
\* the ascending list of the indices of the parts that returned it.
C9_OneFeaturePerId ==
    (Flattened /\ DistinctWithinParts) =>
        /\ Has(result, "features")
        /\ \A id \in AllPartIds :
              /\ Cardinality({k \in 1..Len(result.features) : result.features[k].id = id}) = 1
              /\ \A k \in 1..Len(result.features) :
                    result.features[k].id = id =>
                        result.features[k].searchAreaNumber =
                            IF Cardinality(PartsReturning(id)) = 1
                            THEN Scalar(MinOf(PartsReturning(id)))
                            ELSE [list |-> TRUE, v |-> AscendingList(PartsReturning(id))]

\* an id of parts 0 and 1 is once in the list, with searchAreaNumber [0, 1]
C9_Witness ==
    /\ Flattened /\ DistinctWithinParts
    /\ Len(search_areas) >= 2
    /\ 1 \in PartIds(1) /\ 1 \in PartIds(2)
    /\ Has(result, "features")
    /\ \E k \in 1..Len(result.features) :
          /\ result.features[k].id = 1
          /\ result.features[k].searchAreaNumber = [list |-> TRUE, v |-> <<0, 1>>]

\* C10: in the flattened result numberReturned = len(features) = the number
\* of distinct ids over all parts (the sum of the parts' returns when no id
\* is shared), and numberOfRequests is the sum of the parts' numberOfRequests.
C10_FlattenedCounts ==
    (Flattened /\ Has(result, "features")) =>
        /\ result.numberReturned = Len(result.features)
        /\ result.numberReturned = Cardinality(AllPartIds)
        /\ result.numberOfRequests =
              SumOver([i \in 1..Len(search_areas) |-> search_areas[i].numberOfRequests],
                      1..Len(search_areas))
        /\ (\A i, j \in 1..Len(search_areas) : i # j => PartIds(i) \cap PartIds(j) = {}) =>
              result.numberReturned =
                  SumOver([i \in 1..Len(search_areas) |-> search_areas[i].numberReturned],
                          1..Len(search_areas))

\* three parts with no shared id: the three search areas 0, 1, 2 are present
C10_Witness ==
    /\ Flattened /\ Has(result, "features")
    /\ Len(search_areas) = 3
    /\ \A i, j \in 1..3 : i # j => PartIds(i) \cap PartIds(j) = {}
    /\ result.numberReturned = 3
    /\ {result.features[k].searchAreaNumber : k \in 1..3} = {Scalar(0), Scalar(1), Scalar(2)}
    /\ result.numberOfRequests > 3

\* C35: flatten_search_areas returns a flattened result for every list of
\* successful per-part result sets, also when the feature list of one part
\* holds the same feature id more than once: it never faults, and each id is
\* on exactly one feature of the output.
C35_FlattenTotal ==
    Flattened =>
        /\ Has(result, "features")
        /\ \A id \in AllPartIds :
              Cardinality({k \in 1..Len(result.features) : result.features[k].id = id}) = 1

\* C36: in the flattened result every feature's properties.searchAreaNumber
\* equals its top-level searchAreaNumber, also for a feature returned by more
\* than one part (whose top-level value is the list of the part indices).
C36_SearchAreaInProperties ==
    (Flattened /\ Has(result, "features")) =>
        \A k \in 1..Len(result.features) :
            result.features[k].properties.searchAreaNumber =
                result.features[k].searchAreaNumber

RECURSIVE AtomCount(_)
RECURSIVE AtomCountAll(_)
\* the number of atomic parts of a geometry
AtomCount(shape) == IF shape.atom THEN 1 ELSE AtomCountAll(shape.geoms)
AtomCountAll(shapes) ==
    IF shapes = <<>> THEN 0 ELSE AtomCount(Head(shapes)) + AtomCountAll(Tail(shapes))

NoPartFailed == \A i \in 1..Len(geom_responses) : ~IsErrorResponse(geom_responses[i])

\* C11: the atomic parts of every input geometry are numbered 1, 2, ... in
\* part order. The i-th call of the wrapped function gets part i as its wkt,
\* no part is called twice or out of order, and a fan-out in which no part
\* failed has called every part; with hierarchical_output the result is
\* {searchAreas: [...]} with one entry per part, entry i being the answer for
\* part i with searchAreaNumber = i (0-based).
C11_FanOutInPartOrder ==
    /\ ~wkt.valid => geom_calls = <<>>
    /\ wkt.valid =>
          /\ Len(geom_calls) <= AtomCount(wkt.geom)
          /\ \A i \in 1..Len(geom_calls) : geom_calls[i] = Atom(i)
          /\ (pc = "done" /\ NoPartFailed) =>
                /\ Len(geom_calls) = AtomCount(wkt.geom)
                /\ Len(geom_responses) = Len(geom_calls)
                /\ hierarchical_output =>
                      /\ DOMAIN result = {"searchAreas"}
                      /\ Len(result.searchAreas) = AtomCount(wkt.geom)
                      /\ \A i \in 1..Len(result.searchAreas) :
                            result.searchAreas[i] =
                                DictSet(geom_responses[i], "searchAreaNumber", i - 1)

\* a geometry nested two levels deep, searched hierarchically
C11_Witness ==
    /\ pc = "done" /\ hierarchical_output /\ NoPartFailed
    /\ wkt.valid /\ wkt.geom = Multi(<<Multi(<<Atom(1)>>), Atom(2)>>)
    /\ geom_calls = <<Atom(1), Atom(2)>>
    /\ Has(result, "searchAreas")
    /\ Has(result.searchAreas[1], "features")
    /\ Len(result.searchAreas[1].features) = 1
    /\ result.searchAreas[2].searchAreaNumber = 1

\* C12: when the wrapped call for a part answers with an error payload
\* (code >= 400) that call is the last one, and the wrapper has returned
\* exactly that payload: no later part is called and nothing of the earlier
\* parts is in the result.
C12_ErrorShortCircuits ==
    \A i \in 1..Len(geom_responses) :
        IsErrorResponse(geom_responses[i]) =>
            /\ i = Len(geom_responses)
            /\ Len(geom_calls) = i
            /\ pc = "done"
            /\ result = geom_responses[i]
            /\ ~Has(result, "features") /\ ~Has(result, "searchAreas")

\* the second of three parts fails after the first returned a feature
C12_Witness ==
    /\ pc = "done"
    /\ Len(partial_geoms) = 3
    /\ Len(geom_responses) = 2
    /\ Has(geom_responses[1], "features")
    /\ Len(geom_responses[1].features) = 1
    /\ IsErrorResponse(geom_responses[2])
    /\ result = geom_responses[2]

----------------------------------------------------------------------------
(* Collection names and the version resolver *)

\* the ids a catalog of the model can hold (theme-collection-featuretype-version)
CatalogUniverse == {"a-1", "a-2", "a-9", "a-10", "ab-3", "b-1"}

\* line 43-44: re.split(r'-(?=[^-]*$)', col) and int(version), for the ids above
SplitVersion(col) ==
    CASE col = "a-1"  -> [basename |-> "a", version |-> 1]
      [] col = "a-2"  -> [basename |-> "a", version |-> 2]
      [] col = "a-9"  -> [basename |-> "a", version |-> 9]
      [] col = "a-10" -> [basename |-> "a", version |-> 10]
      [] col = "ab-3" -> [basename |-> "ab", version |-> 3]
      [] col = "b-1"  -> [basename |-> "b", version |-> 1]

\* line 53: f'{basename}-{latest_version}'
FullName(basename, version) ==
    CHOOSE col \in CatalogUniverse :
        SplitVersion(col) = [basename |-> basename, version |-> version]

\* the first version met taken for the latest
LatestVersion_First(versions) == CHOOSE x \in versions : \A y \in versions : x <= y

\* line 52: max(versions)
LatestVersion(versions) == CHOOSE x \in versions : \A y \in versions : x >= y

\* lines 37-56 with flag_recent_updates = False, for the catalog ids: the
\* lookup base name -> latest full name
get_latest_collection_versions(ids) ==
    LET basenames == {SplitVersion(col).basename : col \in ids}
        versions(b) == {SplitVersion(col).version :
                            col \in {c \in ids : SplitVersion(c).basename = b}}
    IN  [b \in basenames |-> FullName(b, LatestVersion(versions(b)))]

\* line 90: f"Collection {e} is not a supported Collection base name. ...",
\* for the names of the model
NotFoundDescription(col) ==
    CASE col = "a"   -> "Collection 'a' is not a supported Collection base name. The name must not include a version suffix."
      [] col = "b"   -> "Collection 'b' is not a supported Collection base name. The name must not include a version suffix."
      [] col = "ab"  -> "Collection 'ab' is not a supported Collection base name. The name must not include a version suffix."
      [] col = "x"   -> "Collection 'x' is not a supported Collection base name. The name must not include a version suffix."
      [] col = "a-1" -> "Collection 'a-1' is not a supported Collection base name. The name must not include a version suffix."
      [] OTHER       -> "Collection is not a supported Collection base name. The name must not include a version suffix."

\* lines 88-92
NotFound(col) ==
    [code |-> 404, description |-> NotFoundDescription(col),
     help |-> "https://api.os.uk/features/ngd/ofa/v1/collections"]

\* the missing name reported is the last one of the list, not the first
FirstMissing_Last(names, latest_collections) ==
    names[CHOOSE i \in 1..Len(names) :
              /\ names[i] \notin DOMAIN latest_collections
              /\ \A j \in (i + 1)..Len(names) : names[j] \in DOMAIN latest_collections]

\* line 86: the comprehension stops at the first name that is no key
FirstMissing(names, latest_collections) ==
    names[CHOOSE i \in 1..Len(names) :
              /\ names[i] \notin DOMAIN latest_collections
              /\ \A j \in 1..(i - 1) : names[j] \in DOMAIN latest_collections]

\* lines 77-94
get_specific_latest_collections(names) ==
    LET latest_collections == get_latest_collection_versions(catalog)
    IN  IF \A i \in 1..Len(names) : names[i] \in DOMAIN latest_collections
        THEN [col \in Range(names) |-> latest_collections[col]]
        ELSE NotFound(FirstMissing(names, latest_collections))

RECURSIVE Dedupe(_, _)
\* the keys of a dict built from the list, in insertion order
Dedupe(names, seen) ==
    IF names = <<>> THEN <<>>
    ELSE IF Head(names) \in seen THEN Dedupe(Tail(names), seen)
    ELSE <<Head(names)>> \o Dedupe(Tail(names), seen \cup {Head(names)})

\* the values of the 404 dict of lines 88-92 as list(...values()) yields
\* them, each written as the URL of line 262 formats it
NotFoundValues == <<"404", "Collection is not a supported Collection base name.",
                    "https://api.os.uk/features/ngd/ofa/v1/collections">>

\* line 555: list(get_specific_latest_collections(no_version).values())
SpecificLatestValues(names) ==
    LET d == get_specific_latest_collections(names)
    IN  IF Has(d, "code")
        THEN NotFoundValues
        ELSE LET keys == Dedupe(names, {})
             IN  [i \in 1..Len(keys) |-> d[keys[i]]]

\* line 551: c[-1].isdigit(), for the names of the model
EndsWithDigit(c) == c \in CatalogUniverse

\* lines 37-56 called on its own (flag_recent_updates = False)
ResolveLatest ==
    /\ pc = "resolve"
    /\ lookup' = get_latest_collection_versions(catalog)
    /\ pc' = "resolve_specific"
    /\ UNCHANGED <<stack, result, upstream, calls, failures, filterVars, routeVars, catalog, items_args, items_requests>>
    /\ UNCHANGED <<limitVars, authVars, geomVars, colVars>>

\* lines 77-94 called with the list `collection'
ResolveSpecific ==
    /\ pc = "resolve_specific"
    /\ result' = get_specific_latest_collections(collection)
    /\ pc' = "done"
    /\ UNCHANGED <<stack, upstream, calls, failures, filterVars, routeVars, itemsVars>>
    /\ UNCHANGED <<limitVars, authVars, geomVars, colVars>>

\* the names a caller asks the resolver for
ResolverNames == {"a", "b", "ab", "x", "a-1"}

InitResolver ==
    /\ pc = "resolve"
    /\ stack = <<>>
    /\ result = EmptyDict
    /\ upstream = [kind |-> "any", total |-> 0]
    /\ calls = <<>>
    /\ failures = <<>>
    /\ IdleFilters
    /\ limit = None
    /\ request_limit = None
    /\ caller_query_params = EmptyDict
    /\ query_params = EmptyDict
    /\ features = <<>>
    /\ batch_count = None
    /\ final_batchsize = None
    /\ request_count = 0
    /\ offset = 0
    /\ IdleAuth
    /\ IdleGeom
    /\ collection \in UNION {[1..k -> ResolverNames] : k \in 0..MaxCollections}
    /\ use_latest_collection = FALSE
    /\ col_list = <<>>
    /\ col_index = 0
    /\ results = <<>>
    /\ col_calls = <<>>
    /\ col_responses = <<>>
    /\ catalog \in SUBSET CatalogUniverse
    /\ lookup = EmptyDict
    /\ items_args = [collection |-> "", use_latest_collection |-> FALSE,
                     query_params |-> EmptyDict, filter_params |-> <<>>, wkt |-> "",
                     add_metadata |-> TRUE]
    /\ items_requests = <<>>

NextResolver == ResolveLatest \/ ResolveSpecific

SpecResolver == InitResolver /\ [][NextResolver]_vars

----------------------------------------------------------------------------
(* Properties of the version resolver, checked under SpecResolver *)

BaseNames == {SplitVersion(col).basename : col \in catalog}

\* C17: the lookup has exactly one entry per distinct base name of the
\* catalog, and the entry of base b is an identifier of the catalog with base
\* b whose version no other identifier with base b exceeds (numerically:
\* version 10 beats version 9).
C17_LatestVersions ==
    pc # "resolve" =>
        /\ DOMAIN lookup = BaseNames
        /\ \A b \in BaseNames :
              /\ lookup[b] \in catalog
              /\ SplitVersion(lookup[b]).basename = b
              /\ \A col \in catalog :
                    SplitVersion(col).basename = b =>
                        SplitVersion(col).version <= SplitVersion(lookup[b]).version

\* versions 1, 2, 9 and 10 of one base name next to single versions of others
C17_Witness ==
    /\ pc # "resolve"
    /\ catalog = CatalogUniverse
    /\ lookup = [b \in {"a", "ab", "b"} |->
                    IF b = "a" THEN "a-10" ELSE IF b = "ab" THEN "ab-3" ELSE "b-1"]

\* C18: if every requested name is a base name of the catalog the result maps
\* exactly the requested names to their latest full names; otherwise it is a
\* 404 payload, holding no mapping, whose description names the first
\* requested name that is no base name; a versioned name is never accepted.
C18_SpecificLatest ==
    pc = "done" =>
        IF \A i \in 1..Len(collection) : collection[i] \in BaseNames
        THEN /\ DOMAIN result = Range(collection)
             /\ \A col \in Range(collection) : result[col] = lookup[col]
             /\ \A i \in 1..Len(collection) : ~EndsWithDigit(collection[i])
        ELSE /\ DOMAIN result = {"code", "description", "help"}
             /\ result.code = 404
             /\ \E i \in 1..Len(collection) :
                   /\ collection[i] \notin BaseNames
                   /\ \A j \in 1..(i - 1) : collection[j] \in BaseNames
                   /\ result.description = NotFoundDescription(collection[i])

\* an unknown name followed by a versioned name: the unknown name is named
C18_Witness ==
    /\ pc = "done"
    /\ catalog = CollectionIds
    /\ collection = <<"x", "a-1">>
    /\ result = NotFound("x")

\* C28: every error payload a component returns has the keys code,
\* description and errorSource; here for the version resolver.
C28_ErrorPayloadKeys ==
    (pc = "done" /\ Has(result, "code")) =>
        {"code", "description", "errorSource"} \subseteq DOMAIN result

----------------------------------------------------------------------------
(* get_latest_collection_versions of src/app_flask/NGD_API_Wrappers.py *)

\* line 384: c.startswith(base_name), for the ids and base names of the model
StartsWith(c, base_name) ==
    LET b == SplitVersion(c).basename
    IN  \/ b = base_name
        \/ b = "ab" /\ base_name = "a"

\* lines 381-386 of the Flask variant: the lookup base name -> the id with
\* the largest int(c.split('-')[-1]) among the ids that start with the base
\* name (no two such ids of the model have the same version, so the order
\* of the catalog list does not decide any max)
flask_get_latest_collection_versions(ids) ==
    LET collection_base_names == {SplitVersion(c).basename : c \in ids}
        all_versions(base_name) == {c \in ids : StartsWith(c, base_name)}
    IN  [base_name \in collection_base_names |->
            CHOOSE c \in all_versions(base_name) :
                \A d \in all_versions(base_name) :
                    SplitVersion(d).version <= SplitVersion(c).version]

\* lines 378-387 of the Flask variant
FlaskResolveLatest ==
    /\ pc = "flask_resolve"
    /\ lookup' = flask_get_latest_collection_versions(catalog)
    /\ pc' = "done"
    /\ UNCHANGED <<stack, result, upstream, calls, failures, filterVars, routeVars, catalog, items_args, items_requests>>
    /\ UNCHANGED <<limitVars, authVars, geomVars, colVars>>

InitFlask ==
    /\ pc = "flask_resolve"
    /\ stack = <<"flask">>
    /\ result = EmptyDict
    /\ upstream = [kind |-> "any", total |-> 0]
    /\ calls = <<>>
    /\ failures = <<>>
    /\ IdleFilters
    /\ limit = None
    /\ request_limit = None
    /\ caller_query_params = EmptyDict
    /\ query_params = EmptyDict
    /\ features = <<>>
    /\ batch_count = None
    /\ final_batchsize = None
    /\ request_count = 0
    /\ offset = 0
    /\ IdleAuth
    /\ IdleGeom
    /\ IdleCol
    /\ catalog \in SUBSET CatalogUniverse
    /\ lookup = EmptyDict
    /\ items_args = [collection |-> "", use_latest_collection |-> FALSE,
                     query_params |-> EmptyDict, filter_params |-> <<>>, wkt |-> "",
                     add_metadata |-> TRUE]
    /\ items_requests = <<>>

NextFlask == FlaskResolveLatest

SpecFlask == InitFlask /\ [][NextFlask]_vars

\* C32: Flask variant: for every base name b of the catalog the lookup entry
\* of b is the id b-<m> with m the largest version among the ids whose base
\* name is exactly b, also when one base name is a string prefix of another.
C32_FlaskLatestVersions ==
    (pc = "done" /\ stack = <<"flask">>) =>
        /\ DOMAIN lookup = BaseNames
        /\ \A b \in BaseNames :
              /\ lookup[b] \in catalog
              /\ SplitVersion(lookup[b]).basename = b
              /\ \A col \in catalog :
                    SplitVersion(col).basename = b =>
                        SplitVersion(col).version <= SplitVersion(lookup[b]).version

\* lines 543-557
apply_latest_collection(names) ==
    LET has_version == SelectSeq(names, EndsWithDigit)
        no_version  == SelectSeq(names, LAMBDA c : ~EndsWithDigit(c))
    IN  SpecificLatestValues(no_version) \o has_version

----------------------------------------------------------------------------
(* Filter strings. A string built by the code is the sequence of the pieces *)
(* it is concatenated from; a keyword value is its Python type and its      *)
(* str(); the text of a bbox is the list of its numbers, joined by ','      *)

StrValue(t) == [type |-> "str", text |-> t]
IntValue(t) == [type |-> "int", text |-> t]
BoolValue(t) == [type |-> "bool", text |-> t]

\* line 203, isinstance(str, v): TypeError unless v is a class, and False
\* for every class of which the class str is no instance
IsClass(v) == v.type = "class"

\* line 206
RECURSIVE JoinAnd(_)
JoinAnd(filter_list) ==
    IF filter_list = <<>> THEN <<>>
    ELSE IF Len(filter_list) = 1 THEN filter_list[1]
    ELSE filter_list[1] \o <<"and">> \o JoinAnd(Tail(filter_list))

\* lines 200-206
construct_filter_param(mapping) ==
    IF \E i \in 1..Len(mapping) : ~IsClass(mapping[i].value)
    THEN Raised("TypeError")
    ELSE [text |-> JoinAnd([i \in 1..Len(mapping) |->
                               <<"(", mapping[i].key, "=", mapping[i].value.text, ")">>])]

\* line 177
wkt_to_spatial_filter(w) == <<"(", "INTERSECTS", "(geometry,", w, ")", ")">>

\* line 188: str(bbox_tuple)[1:-1] without blanks; Python writes a tuple of
\* one value with a comma after it
TupleText(t) == [values |-> t, trailing_comma |-> Len(t) = 1]

\* line 198
JoinComma(list_) == [values |-> list_, trailing_comma |-> FALSE]

\* lines 179-198
construct_bbox_filter(bbox_tuple, xmin, ymin, xmax, ymax) ==
    IF bbox_tuple.some /\ Len(bbox_tuple.v) > 0
    THEN TupleText(bbox_tuple.v)
    ELSE IF \E z \in {xmin, ymin, xmax, ymax} : ~z.some
    THEN Raised("AttributeError")
    ELSE IF xmin.v > xmax.v THEN Raised("ValueError")
    ELSE IF ymin.v > ymax.v THEN Raised("ValueError")
    ELSE JoinComma(<<xmin.v, ymin.v, xmax.v, ymax.v>>)

\* one call of construct_filter_param
ConstructFilterParam ==
    /\ pc = "construct_filter_param"
    /\ result' = construct_filter_param(params)
    /\ pc' = "done"
    /\ UNCHANGED <<stack, upstream, calls, failures, filterVars, routeVars>>
    /\ UNCHANGED <<limitVars, authVars, geomVars, colVars, itemsVars>>

\* one call of construct_bbox_filter
ConstructBboxFilter ==
    /\ pc = "construct_bbox_filter"
    /\ result' = construct_bbox_filter(bbox.bbox_tuple, bbox.xmin, bbox.ymin, bbox.xmax, bbox.ymax)
    /\ pc' = "done"
    /\ UNCHANGED <<stack, upstream, calls, failures, filterVars, routeVars>>
    /\ UNCHANGED <<limitVars, authVars, geomVars, colVars, itemsVars>>

FilterItems ==
    {[key |-> "oslandcovertierb", value |-> StrValue("Water")],
     [key |-> "b", value |-> IntValue("2")],
     [key |-> "c", value |-> BoolValue("True")]}

\* the mappings of up to two of these items, in either order
FilterMappings ==
    {<<>>} \cup {<<x>> : x \in FilterItems}
    \cup {<<x, y>> : x \in FilterItems, y \in FilterItems}

BboxValues == {0, 1, 5}

BboxTuples ==
    {<<>>} \cup {<<a>> : a \in BboxValues}
    \cup {<<a, b>> : a \in BboxValues, b \in {0}}
    \cup {<<a, b, c, e>> : a \in BboxValues, b \in BboxValues, c \in BboxValues, e \in {1}}

OptionalBound == {None} \cup {Some(z) : z \in BboxValues}

InitFilters ==
    /\ stack \in {<<"construct_filter_param">>, <<"construct_bbox_filter">>}
    /\ pc = stack[1]
    /\ result = EmptyDict
    /\ upstream = [kind |-> "any", total |-> 0]
    /\ calls = <<>>
    /\ failures = <<>>
    /\ limit = None
    /\ request_limit = None
    /\ caller_query_params = EmptyDict
    /\ query_params = EmptyDict
    /\ features = <<>>
    /\ batch_count = None
    /\ final_batchsize = None
    /\ request_count = 0
    /\ offset = 0
    /\ IdleAuth
    /\ IdleGeom
    /\ IdleCol
    /\ IdleItems
    /\ IdleRoute
    /\ \/ /\ stack = <<"construct_filter_param">>
          /\ params \in FilterMappings
          /\ IdleBbox
       \/ /\ stack = <<"construct_bbox_filter">>
          /\ params = <<>>
          /\ \/ bbox \in [bbox_tuple : {[some |-> TRUE, v |-> t] : t \in BboxTuples},
                          xmin : {None}, ymin : {None}, xmax : {None}, ymax : {None}]
             \/ bbox \in [bbox_tuple : {NoTuple, [some |-> TRUE, v |-> <<>>]},
                          xmin : OptionalBound, ymin : OptionalBound,
                          xmax : OptionalBound, ymax : OptionalBound]

NextFilters == ConstructFilterParam \/ ConstructBboxFilter

SpecFilters == InitFilters /\ [][NextFilters]_vars

----------------------------------------------------------------------------
(* Properties of the filter constructors, checked under SpecFilters *)

Quoted(v) == IF v.type = "str" THEN <<"'", v.text, "'">> ELSE <<v.text>>

Predicate(item) == <<"(", item.key, "=">> \o Quoted(item.value) \o <<")">>

\* the '(key=value)' predicates of a mapping joined by 'and'
AttributeFilter(mapping) == JoinAnd([i \in 1..Len(mapping) |-> Predicate(mapping[i])])

CalledFilterParam == pc = "done" /\ stack = <<"construct_filter_param">>

CalledBboxFilter == pc = "done" /\ stack = <<"construct_bbox_filter">>

\* C25: construct_filter_param returns, for every mapping, the '(key=value)'
\* predicates joined by 'and' in mapping order, string values in single
\* quotes and numbers and booleans bare; the empty mapping gives ''.
C25_AttributeFilter ==
    CalledFilterParam =>
        /\ ~Has(result, "raised")
        /\ Has(result, "text") /\ result.text = AttributeFilter(params)

BboxComplete(b) ==
    \/ b.bbox_tuple.some /\ Len(b.bbox_tuple.v) = 4
    \/ b.xmin.some /\ b.ymin.some /\ b.xmax.some /\ b.ymax.some

BboxInverted(b) ==
    IF b.bbox_tuple.some /\ Len(b.bbox_tuple.v) = 4
    THEN b.bbox_tuple.v[1] > b.bbox_tuple.v[3] \/ b.bbox_tuple.v[2] > b.bbox_tuple.v[4]
    ELSE /\ b.xmin.some /\ b.ymin.some /\ b.xmax.some /\ b.ymax.some
         /\ b.xmin.v > b.xmax.v \/ b.ymin.v > b.ymax.v

\* C27: construct_bbox_filter fails when neither a complete tuple of four
\* values nor all of xmin, ymin, xmax, ymax are given, and when xmin > xmax
\* or ymin > ymax, however the bounds are supplied.
C27_BboxValidated ==
    (CalledBboxFilter /\ (~BboxComplete(bbox) \/ BboxInverted(bbox))) =>
        Has(result, "raised")

----------------------------------------------------------------------------
(* ngd_items_request *)

\* lines 325-327: the features of a result set carry their collection
CollectionFeatures(col, n) ==
    [i \in 1..n |->
        DictSet(DictSet(Feature(i), "collection", col),
                "properties", DictSet(EmptyDict, "collection", col))]

\* dict.get(k): the value of the key, or None
DictGet(d, k) == IF Has(d, k) THEN d[k] ELSE "None"

\* lines 246-247 and 262: the collection of the URL (None formats as 'None')
RequestedCollection(col, use_latest) ==
    IF use_latest
    THEN DictGet(get_specific_latest_collections(<<col>>), col)
    ELSE col

\* a body that response.json() cannot decode; empty makes the message of the
\* JSONDecodeError start with 'Expecting value'
NotJson(empty) == [json |-> FALSE, empty |-> empty]

\* an upstream description that quotes part of the request in braces
BraceDescription == "Property {name} is not queryable"

\* the HTTP answers of the items endpoint for the collection of the URL
HttpResponses(col) ==
    IF upstream.kind = "healthy"
    THEN {[status |-> 200, body |-> Page(CollectionFeatures(col, n), nx)] :
              n \in 0..1, nx \in BOOLEAN}
    ELSE IF col \in catalog
    THEN {[status |-> 200, body |-> Page(CollectionFeatures(col, n), nx)] :
              n \in 0..1, nx \in BOOLEAN}
         \cup {[status |-> 400,
                body |-> [code |-> 400, description |-> "Not supported query parameter"]],
               [status |-> 400, body |-> [code |-> 400, description |-> BraceDescription]],
               [status |-> 401, body |-> [description |-> "Unauthorized"]],
               [status |-> 503, body |-> [message |-> "fault"]],
               [status |-> 504, body |-> NotJson(FALSE)],
               [status |-> 200, body |-> NotJson(TRUE)],
               [status |-> 200, body |-> NotJson(FALSE)]}
    ELSE {[status |-> 404,
           body |-> [code |-> 404, description |-> "Collection is not a supported Collection"]]}

\* r.get raises on a timeout (UNIVERSAL_TIMEOUT) or a failed connection
TransportFaults == {"Timeout", "ConnectionError"}

\* lines 276-290: the body is not JSON
DecodeErrorPayload(status_code, body) ==
    IF body.empty
    THEN [code |-> 414,
          description |->
              [ErrorText |-> "Expecting value",
               HelpCatalyst |-> "This could be due to a request URI which is too long or an input geometry which is too complex."],
          errorSource |-> "OS NGD API"]
    ELSE [code |-> status_code, description |-> "JSONDecodeError",
          errorSource |-> "OS NGD API"]

\* lines 292-305: an answer with status >= 400
UpstreamErrorPayload(status_code, body) ==
    LET descr == IF Has(body, "description") THEN body.description ELSE ""
        r1 == IF descr = ""
              THEN [code |-> status_code,
                    description |-> IF Has(body, "code") THEN DictPop(body, "code") ELSE body]
              ELSE IF descr = "Not supported query parameter"
              THEN DictSet(body, "description",
                           "Not supported query parameter. Additional supported Catalyst parameters for this function are: {attr}.")
              ELSE body
        r2 == IF Has(r1, "code") /\ r1.code # 0 THEN r1 ELSE DictSet(r1, "code", status_code)
    IN  DictSet(r2, "errorSource", "OS NGD API")

\* lines 325-331; the features already carry col
ItemsSuccess(body, add_metadata) ==
    IF add_metadata THEN DictSet(body, "numberOfRequests", 1) ELSE body

\* lines 274-331
ItemsResponse(http, add_metadata) ==
    IF Has(http.body, "json")
    THEN DecodeErrorPayload(http.status, http.body)
    ELSE IF http.status >= 400
    THEN UpstreamErrorPayload(http.status, http.body)
    ELSE ItemsSuccess(http.body, add_metadata)

\* lines 250-252, 255-257: a filter put into the local query_params
AddFilter(qp, filters) ==
    LET current_filters == IF Has(qp, "filter") THEN qp["filter"] ELSE <<>>
    IN  DictSet(qp, "filter",
                IF current_filters # <<>>
                THEN <<"(">> \o current_filters \o <<")and">> \o filters
                ELSE filters)

\* lines 240-257: the local query_params after the filters were added, or
\* the exception of construct_filter_param
ItemsQueryParams(args) ==
    LET filters == construct_filter_param(args.filter_params)
    IN  IF args.filter_params # <<>> /\ Has(filters, "raised")
        THEN filters
        ELSE LET with_attributes == IF args.filter_params # <<>>
                                    THEN AddFilter(args.query_params, filters.text)
                                    ELSE args.query_params
             IN  IF args.wkt # ""
                 THEN AddFilter(with_attributes, wkt_to_spatial_filter(args.wkt))
                 ELSE with_attributes

\* the keyword arguments ngd_items_request gets through the wrappers composed
\* around it: collection from the collection fan-out (lines 572-577), wkt
\* from the geometry fan-out (lines 502-506), query_params and
\* add_metadata = False from limit_extension (lines 370-375)
ItemsBind ==
    /\ pc = "bind"
    /\ items_args' =
          [collection |-> IF Contains(stack, "col") THEN col_list[col_index + 1]
                          ELSE collection[1],
           use_latest_collection |-> ~Contains(stack, "col") /\ use_latest_collection,
           query_params |-> IF Contains(stack, "limit") THEN query_params
                            ELSE caller_query_params,
           filter_params |-> <<>>,
           wkt |-> IF Contains(stack, "geom") THEN "part" ELSE "",
           add_metadata |-> ~Contains(stack, "limit")]
    /\ pc' = "items"
    /\ UNCHANGED <<stack, result, upstream, calls, failures, filterVars, routeVars, catalog, lookup,
                   items_requests>>
    /\ UNCHANGED <<limitVars, authVars, geomVars, colVars>>

\* lines 240-331
ItemsRequest ==
    /\ pc = "items"
    /\ LET col == RequestedCollection(items_args.collection,
                                      items_args.use_latest_collection)
           qp == ItemsQueryParams(items_args)
       IN  IF Has(qp, "raised")
           THEN /\ Raise(qp.raised)
                /\ UNCHANGED <<items_requests, items_args>>
           ELSE /\ items_args' = [items_args EXCEPT !.query_params = CallerDict(@, qp)]
                /\ \/ \E fault \in TransportFaults :
                        /\ upstream.kind # "healthy"
                        /\ items_requests' =
                               Append(items_requests, [collection |-> col, query_params |-> qp,
                                                       outcome |-> fault])
                        /\ Raise(fault)
                   \/ \E http \in HttpResponses(col) :
                        /\ items_requests' =
                               Append(items_requests, [collection |-> col, query_params |-> qp,
                                                       outcome |-> "response"])
                        /\ ReturnFrom("items", ItemsResponse(http, items_args.add_metadata))
    /\ UNCHANGED <<stack, upstream, calls, failures, filterVars, routeVars, catalog, lookup>>
    /\ UNCHANGED <<limitVars, authVars, geomVars, colVars>>

\* the caller's query_params: no filter, an empty one, a filter
CallerFilters == {EmptyDict, [filter |-> <<>>], [filter |-> <<"(a=1)">>]}

AttributeFilters == {<<>>, <<[key |-> "b", value |-> IntValue("2")]>>}

InitItems ==
    /\ pc = "items"
    /\ stack = <<"items">>
    /\ result = EmptyDict
    /\ upstream = [kind |-> "any", total |-> 0]
    /\ calls = <<>>
    /\ failures = <<>>
    /\ IdleFilters
    /\ limit = None
    /\ request_limit = None
    /\ caller_query_params = EmptyDict
    /\ query_params = EmptyDict
    /\ features = <<>>
    /\ batch_count = None
    /\ final_batchsize = None
    /\ request_count = 0
    /\ offset = 0
    /\ IdleAuth
    /\ IdleGeom
    /\ IdleCol
    /\ catalog \in SUBSET CollectionIds
    /\ lookup = EmptyDict
    /\ items_args \in [collection : ResolverNames, use_latest_collection : BOOLEAN,
                       query_params : CallerFilters, filter_params : AttributeFilters,
                       wkt : {"", "POINT(0 0)"}, add_metadata : BOOLEAN]
    /\ items_requests = <<>>

NextItems == ItemsRequest

SpecItems == InitItems /\ [][NextItems]_vars

----------------------------------------------------------------------------
(* Properties of ngd_items_request, checked under SpecItems *)

\* C19: with use_latest_collection set, the request for a name without a
\* version suffix (a base name of the catalog) goes to its latest version,
\* and the request for a name with a version suffix goes to exactly that
\* name; without use_latest_collection it goes to the name given.
C19_SuffixWins ==
    \A i \in 1..Len(items_requests) :
        LET given == items_args.collection IN
        /\ (items_args.use_latest_collection /\ given \in BaseNames) =>
              items_requests[i].collection = get_latest_collection_versions(catalog)[given]
        /\ EndsWithDigit(given) => items_requests[i].collection = given
        /\ ~items_args.use_latest_collection => items_requests[i].collection = given

\* C20: when the GET times out or fails at the transport level, the caller
\* of ngd_items_request gets an error payload with code, description and
\* errorSource, not an exception.
C20_TransportFaultIsPayload ==
    \A i \in 1..Len(items_requests) :
        (items_requests[i].outcome \in TransportFaults /\ pc = "done") =>
            /\ ~Has(result, "raised")
            /\ {"code", "description", "errorSource"} \subseteq DOMAIN result

\* '(' + C + ')and' + X for a non-empty current filter C, else X
MergeFilter(current, added) ==
    IF added = <<>> THEN current
    ELSE IF current = <<>> THEN added
    ELSE <<"(">> \o current \o <<")and">> \o added

GivenFilter(args) ==
    IF Has(args.query_params, "filter") THEN args.query_params["filter"] ELSE <<>>

SpatialFilter(args) ==
    IF args.wkt = "" THEN <<>> ELSE <<"(", "INTERSECTS", "(geometry,", args.wkt, ")", ")">>

SentFilter(sent) ==
    IF Has(sent.query_params, "filter") THEN sent.query_params["filter"] ELSE <<>>

\* C26: the filter sent upstream is composed left to right from the
\* caller's filter F, the attribute filter A and the spatial filter S, each
\* addition X to a non-empty current filter C giving '(' + C + ')and' + X:
\* every finished call has sent '((F)andA)andS' (an absent one left out).
C26_FilterComposition ==
    pc = "done" =>
        /\ Len(items_requests) = 1
        /\ SentFilter(items_requests[1]) =
               MergeFilter(MergeFilter(GivenFilter(items_args),
                                       AttributeFilter(items_args.filter_params)),
                           SpatialFilter(items_args))

\* C34: every error payload ngd_items_request returns has code >= 400, so
\* the 'code >= 400' test of the wrappers recognises it: a finished call that
\* returned no page of features returned a payload that test takes for an
\* error, also for an undecodable body delivered with a status below 400.
C34_ErrorCodeRecognised ==
    (pc = "done" /\ ~Has(result, "raised") /\ ~Has(result, "features")) =>
        IsErrorResponse(result)

----------------------------------------------------------------------------
(* multiple_collections_extension.wrapper *)

\* the wrapper composed inside `layer' (lines 631-645)
\* lines 567-570
ColEnter ==
    /\ pc = "col"
    /\ col_list' = IF use_latest_collection
                   THEN apply_latest_collection(collection)
                   ELSE collection
    /\ results' = <<>>
    /\ col_index' = 0
    /\ pc' = "col_loop"
    /\ UNCHANGED <<stack, result, upstream, calls, failures, filterVars, routeVars, collection, use_latest_collection,
                   col_calls, col_responses>>
    /\ UNCHANGED <<limitVars, authVars, geomVars, itemsVars>>

\* lines 571-577: the call of func for the next collection
ColCallInner ==
    /\ pc = "col_loop"
    /\ col_index < Len(col_list)
    /\ col_calls' = Append(col_calls, col_list[col_index + 1])
    /\ pc' = InnerPosition("col")
    /\ UNCHANGED <<stack, result, upstream, calls, failures, filterVars, routeVars, collection, use_latest_collection,
                   col_list, col_index, results, col_responses>>
    /\ UNCHANGED <<limitVars, authVars, geomVars, itemsVars>>

\* results[col] = json_response on the list of items of the dict
ItemsPut(items, k, x) ==
    IF \E i \in 1..Len(items) : items[i].key = k
    THEN [i \in 1..Len(items) |-> IF items[i].key = k THEN [key |-> k, value |-> x] ELSE items[i]]
    ELSE Append(items, [key |-> k, value |-> x])

\* a failed collection left out of the results, the loop going on
ColReceive_SkipFailed(json_response) ==
    LET code == IF Has(json_response, "code") THEN json_response.code ELSE 200
    IN  /\ results' = IF code >= 400 THEN results
                      ELSE ItemsPut(results, col_list[col_index + 1], json_response)
        /\ col_index' = col_index + 1
        /\ pc' = "col_loop"
        /\ UNCHANGED result

\* lines 578-583: what the loop does with the answer of func
ColReceive(json_response) ==
    LET code == IF Has(json_response, "code") THEN json_response.code ELSE 200
    IN  IF code >= 400
        THEN /\ ReturnFrom("col", json_response)
             /\ UNCHANGED <<col_index, results>>
        ELSE /\ results' = ItemsPut(results, col_list[col_index + 1], json_response)
             /\ col_index' = col_index + 1
             /\ pc' = "col_loop"
             /\ UNCHANGED result

ColRecv ==
    /\ pc = "col_recv"
    /\ col_responses' = Append(col_responses, result)
    /\ ColReceive(result)
    /\ UNCHANGED <<stack, upstream, calls, failures, filterVars, routeVars, collection, use_latest_collection, col_list,
                   col_calls>>
    /\ UNCHANGED <<limitVars, authVars, geomVars, itemsVars>>

\* a total overwritten by each collection instead of added up
AddCount_Overwrite(total, n) == n

\* lines 602, 605: geojson[...] += ...
AddCount(total, n) == total + n

RECURSIVE MergeCollections(_, _, _)

\* lines 597-606 from the i-th item of results on
MergeCollections(geojson, items, i) ==
    IF i > Len(items) \/ Has(geojson, "raised") THEN geojson
    ELSE LET col == items[i].key
             col_results == items[i].value
         IN  IF ~Has(col_results, "features") \/ ~Has(col_results, "numberOfRequests")
                  \/ ~Has(col_results, "numberReturned")
             THEN Raised("KeyError")
             ELSE MergeCollections(
                      [geojson EXCEPT
                          !.features = @ \o col_results.features,
                          !.numberOfRequests = AddCount(@, col_results.numberOfRequests),
                          !.numberOfRequestsByCollection =
                              DictSet(@, col, col_results.numberOfRequests),
                          !.numberReturned = AddCount(@, col_results.numberReturned),
                          !.numberReturnedByCollection =
                              DictSet(@, col, col_results.numberReturned)],
                      items, i + 1)

\* lines 585-610; hierarchical_output reaches this wrapper unless a geometry
\* fan-out composed around it has taken it (line 484), the default being False
ColReturn ==
    /\ pc = "col_loop"
    /\ col_index = Len(col_list)
    /\ IF hierarchical_output /\ ~Around("geom", "col")
       THEN ReturnFrom("col", [k \in {results[i].key : i \in 1..Len(results)} |->
                                  (CHOOSE it \in Range(results) : it.key = k).value])
       ELSE LET geojson ==
                    MergeCollections(
                        [type |-> "FeatureCollection", numberOfRequests |-> 0,
                         numberOfRequestsByCollection |-> EmptyDict, numberReturned |-> 0,
                         numberReturnedByCollection |-> EmptyDict, features |-> <<>>,
                         timeStamp |-> "now"],
                        results, 1)
            IN  IF Has(geojson, "raised")
                THEN Raise(geojson.raised)
                ELSE ReturnFrom("col", geojson)
    /\ UNCHANGED <<stack, upstream, calls, failures, filterVars, routeVars, colVars, limitVars, authVars, geomVars, itemsVars>>

----------------------------------------------------------------------------
(* The collection fan-out around a function that answers at once *)

\* every answer the wrapped function can give for one collection: a result
\* set or an error for a collection of the catalog, the upstream's 404 for
\* any other path
CollectionResponses(col) ==
    IF col \in catalog
    THEN {ResultSet(CollectionFeatures(col, n), n + 1) : n \in 0..MaxFeatureId}
         \cup {ErrorPayload(c, "upstream", "OS NGD API") : c \in {200, 404}}
    ELSE {ErrorPayload(404, "upstream", "OS NGD API")}

\* lines 571-583, one iteration (func answering at once)
ColIterate ==
    /\ pc = "col_loop"
    /\ col_index < Len(col_list)
    /\ col_calls' = Append(col_calls, col_list[col_index + 1])
    /\ \E json_response \in CollectionResponses(col_list[col_index + 1]) :
          /\ col_responses' = Append(col_responses, json_response)
          /\ ColReceive(json_response)
    /\ UNCHANGED <<stack, upstream, calls, failures, filterVars, routeVars, collection, use_latest_collection, col_list>>
    /\ UNCHANGED <<limitVars, authVars, geomVars, itemsVars>>

\* the names a caller passes: base names, an unknown name, a versioned name
CollectionNames == {"a", "b", "x", "a-1"}

CollectionLists == UNION {[1..k -> CollectionNames] : k \in 0..MaxCollections}

InitCol ==
    /\ pc = "col"
    /\ stack = <<"col">>
    /\ result = EmptyDict
    /\ upstream = [kind |-> "any", total |-> 0]
    /\ calls = <<>>
    /\ failures = <<>>
    /\ IdleFilters
    /\ limit = None
    /\ request_limit = None
    /\ caller_query_params = EmptyDict
    /\ query_params = EmptyDict
    /\ features = <<>>
    /\ batch_count = None
    /\ final_batchsize = None
    /\ request_count = 0
    /\ offset = 0
    /\ IdleAuth
    /\ wkt = [valid |-> FALSE, geom |-> EmptyDict]
    /\ hierarchical_output \in BOOLEAN
    /\ partial_geoms = <<>>
    /\ search_area = 0
    /\ search_areas = <<>>
    /\ geom_calls = <<>>
    /\ geom_responses = <<>>
    /\ collection \in CollectionLists
    /\ use_latest_collection \in BOOLEAN
    /\ col_list = <<>>
    /\ col_index = 0
    /\ results = <<>>
    /\ col_calls = <<>>
    /\ col_responses = <<>>
    /\ IdleItems

NextCol == ColEnter \/ ColIterate \/ ColReturn

SpecCol == InitCol /\ [][NextCol]_vars

----------------------------------------------------------------------------
(* Properties of the collection fan-out, checked under SpecCol *)

IsCollectionError(r) == Has(r, "code") /\ r.code >= 400

\* C13: when the wrapped call for a collection answers with an error payload
\* (code >= 400) that call is the last one and the wrapper has returned
\* exactly that payload, in hierarchical and in merged output mode.
C13_CollectionErrorShortCircuits ==
    \A i \in 1..Len(col_responses) :
        IsCollectionError(col_responses[i]) =>
            /\ i = Len(col_responses)
            /\ Len(col_calls) = i
            /\ pc = "done"
            /\ result = col_responses[i]

\* the first of two collections of the catalog fails: the second is not called
C13_Witness ==
    /\ pc = "done"
    /\ Len(col_list) = 2 /\ col_list[2] \in catalog
    /\ col_calls = <<"a-1">>
    /\ IsCollectionError(col_responses[1])
    /\ result = col_responses[1]

\* the unversioned names of the input list that are no base name of the catalog
MissingBaseNames ==
    SelectSeq(collection,
              LAMBDA c : ~EndsWithDigit(c)
                         /\ c \notin DOMAIN get_latest_collection_versions(catalog))

\* C14: with use_latest_collection, if an unversioned name of the input list
\* is no base name of the catalog, the wrapped function is never called and
\* the wrapper returns the resolver's 404 payload for that name.
C14_NotFoundFirst ==
    (use_latest_collection /\ MissingBaseNames # <<>>) =>
        /\ col_calls = <<>>
        /\ pc = "done" => result = NotFound(MissingBaseNames[1])

\* the name the i-th call is due for: a versioned name as it is, any other
\* name replaced by its latest version
ResolvedName(c) ==
    IF use_latest_collection /\ ~EndsWithDigit(c)
    THEN get_latest_collection_versions(catalog)[c]
    ELSE c

\* C15: the i-th call of the wrapped function is for the i-th name of the
\* input list (resolved to its latest version if it is unversioned and
\* use_latest_collection is set), whenever every unversioned name resolves.
C15_CallsInInputOrder ==
    (~use_latest_collection \/ MissingBaseNames = <<>>) =>
        \A i \in 1..Len(col_calls) :
            i <= Len(collection) /\ col_calls[i] = ResolvedName(collection[i])

RECURSIVE ConcatFeatures(_)
ConcatFeatures(rs) ==
    IF rs = <<>> THEN <<>> ELSE Head(rs).features \o ConcatFeatures(Tail(rs))

Merged ==
    /\ pc = "done" /\ ~hierarchical_output
    /\ Has(result, "numberOfRequestsByCollection")

DistinctCalls == Cardinality(Range(col_calls)) = Len(col_calls)

\* C16: in a merged result over distinct called collection names,
\* numberOfRequests and numberReturned are the sums of the values of their
\* per-collection breakdowns, each breakdown has one entry per called
\* collection holding that child's own count, and features is the
\* concatenation of the children's features in call order.
C16_MergedCounts ==
    (Merged /\ DistinctCalls) =>
        /\ DOMAIN result.numberOfRequestsByCollection = Range(col_calls)
        /\ DOMAIN result.numberReturnedByCollection = Range(col_calls)
        /\ \A i \in 1..Len(col_calls) :
              /\ result.numberOfRequestsByCollection[col_calls[i]] =
                     col_responses[i].numberOfRequests
              /\ result.numberReturnedByCollection[col_calls[i]] =
                     col_responses[i].numberReturned
        /\ result.numberOfRequests =
              SumOver(result.numberOfRequestsByCollection,
                      DOMAIN result.numberOfRequestsByCollection)
        /\ result.numberReturned =
              SumOver(result.numberReturnedByCollection,
                      DOMAIN result.numberReturnedByCollection)
        /\ result.features = ConcatFeatures(col_responses)

\* two collections, the first returning two features and the second one
C16_Witness ==
    /\ Merged /\ DistinctCalls
    /\ col_calls = <<"a-2", "b-1">>
    /\ result.numberReturnedByCollection["a-2"] = 2
    /\ result.numberReturnedByCollection["b-1"] = 1
    /\ result.numberReturned = 3
    /\ result.numberOfRequests = 5
    /\ Len(result.features) = 3

\* C37: in the merged result of wrapped calls that each returned a result
\* set, numberOfRequests is the total of the requests made by all wrapped
\* calls of the fan-out and features holds the features of every wrapped
\* call, also when a collection name occurs more than once in the input list.
C37_MergedTotals ==
    (Merged /\ \A i \in 1..Len(col_responses) : Has(col_responses[i], "numberOfRequests")) =>
        /\ result.numberOfRequests =
              SumOver([i \in 1..Len(col_responses) |-> col_responses[i].numberOfRequests],
                      1..Len(col_responses))
        /\ result.features = ConcatFeatures(col_responses)

----------------------------------------------------------------------------
(* The geometry fan-out composed around another wrapper *)

\* lines 501-506: the call of func for the next part
GeomCallInner ==
    /\ pc = "geom_loop"
    /\ search_area < Len(partial_geoms)
    /\ geom_calls' = Append(geom_calls, partial_geoms[search_area + 1])
    /\ pc' = InnerPosition("geom")
    /\ UNCHANGED <<stack, result, upstream, calls, failures, filterVars, routeVars, wkt, hierarchical_output, partial_geoms,
                   search_area, search_areas, geom_responses>>
    /\ UNCHANGED <<limitVars, authVars, colVars, itemsVars>>

\* lines 507-510 on the answer of the wrapper inside
GeomRecv ==
    /\ pc = "geom_recv"
    /\ geom_responses' = Append(geom_responses, result)
    /\ GeomReceive(result)
    /\ UNCHANGED <<stack, upstream, calls, failures, filterVars, routeVars, wkt, hierarchical_output, partial_geoms,
                   geom_calls>>
    /\ UNCHANGED <<limitVars, authVars, colVars, itemsVars>>

----------------------------------------------------------------------------
(* The compositions with limit_extension: items_limit, items_limit_geom,    *)
(* items_limit_col, items_limit_geom_col (and their auth variants, whose    *)
(* innermost function is items_auth)                                        *)

Compositions ==
    {<<"limit">>, <<"geom", "limit">>, <<"col", "limit">>, <<"col", "geom", "limit">>}

StackGeometries == {Multi(PartsUpTo(k)) : k \in 0..2} \cup {Atom(1)}

StackWktInputs ==
    {[valid |-> FALSE, geom |-> EmptyDict]}
    \cup {[valid |-> TRUE, geom |-> g] : g \in StackGeometries}

InitStack ==
    /\ stack \in Compositions
    /\ pc = stack[1]
    /\ result = EmptyDict
    /\ upstream \in {[kind |-> "flaky", total |-> n] : n \in {0, 120}}
    /\ calls = <<>>
    /\ failures = <<>>
    /\ IdleFilters
    /\ limit \in {None, Some(50), Some(150)}
    /\ request_limit \in {None, Some(1), Some(DefaultRequestLimit)}
    /\ caller_query_params \in {EmptyDict, [offset |-> 10], [limit |-> 10, offset |-> 10]}
    /\ query_params = EmptyDict
    /\ features = <<>>
    /\ batch_count = None
    /\ final_batchsize = None
    /\ request_count = 0
    /\ offset = 0
    /\ IdleAuth
    /\ IF Contains(stack, "geom") THEN wkt \in StackWktInputs
                                  ELSE wkt = [valid |-> FALSE, geom |-> EmptyDict]
    /\ hierarchical_output \in BOOLEAN
    /\ partial_geoms = <<>>
    /\ search_area = 0
    /\ search_areas = <<>>
    /\ geom_calls = <<>>
    /\ geom_responses = <<>>
    /\ IF Contains(stack, "col")
       THEN collection \in CollectionLists /\ use_latest_collection \in BOOLEAN
       ELSE collection = <<>> /\ use_latest_collection = FALSE
    /\ col_list = <<>>
    /\ col_index = 0
    /\ results = <<>>
    /\ col_calls = <<>>
    /\ col_responses = <<>>
    /\ IdleItems

NextStack ==
    \/ ColEnter \/ ColCallInner \/ ColRecv \/ ColReturn
    \/ GeomEnter \/ GeomCallInner \/ GeomRecv \/ GeomReturn
    \/ LimitEnter \/ LimitFetch \/ LimitReturn

SpecStack == InitStack /\ [][NextStack]_vars

----------------------------------------------------------------------------
(* Properties of the compositions, checked under SpecStack *)

\* C6: if the caller's query parameters contain 'offset', every composition
\* with limit_extension returns a validation error payload (code 400,
\* errorSource 'Catalyst Wrapper') and issues no upstream items request.
C6_OffsetRejected ==
    (pc = "done" /\ Has(caller_query_params, "offset")) =>
        /\ calls = <<>>
        /\ Has(result, "code") /\ result.code = 400
        /\ Has(result, "errorSource") /\ result.errorSource = "Catalyst Wrapper"

----------------------------------------------------------------------------
(* Every nesting order of the three wrappers around ngd_items_request, with *)
(* an upstream that answers every request with a page                       *)

Wrappers == {"limit", "geom", "col"}

Orders ==
    {<<a, "items">> : a \in Wrappers}
    \cup {o \in {<<a, b, "items">> : a \in Wrappers, b \in Wrappers} : o[1] # o[2]}
    \cup {o \in {<<a, b, c, "items">> : a \in Wrappers, b \in Wrappers, c \in Wrappers} :
              o[1] # o[2] /\ o[1] # o[3] /\ o[2] # o[3]}

InitOrders ==
    /\ stack \in Orders
    /\ pc = stack[1]
    /\ result = EmptyDict
    /\ upstream = [kind |-> "healthy", total |-> 0]
    /\ calls = <<>>
    /\ failures = <<>>
    /\ IdleFilters
    /\ IF Contains(stack, "limit")
       THEN limit = Some(50) /\ request_limit \in {Some(1), Some(DefaultRequestLimit)}
       ELSE limit = None /\ request_limit = None
    /\ caller_query_params = EmptyDict
    /\ query_params = EmptyDict
    /\ features = <<>>
    /\ batch_count = None
    /\ final_batchsize = None
    /\ request_count = 0
    /\ offset = 0
    /\ IdleAuth
    /\ IF Contains(stack, "geom")
       THEN wkt \in {[valid |-> TRUE, geom |-> g] : g \in StackGeometries}
       ELSE wkt = [valid |-> FALSE, geom |-> EmptyDict]
    /\ hierarchical_output \in BOOLEAN
    /\ partial_geoms = <<>>
    /\ search_area = 0
    /\ search_areas = <<>>
    /\ geom_calls = <<>>
    /\ geom_responses = <<>>
    /\ IF Contains(stack, "col")
       THEN collection \in {<<>>, <<"a-1">>, <<"a-1", "b-1">>}
       ELSE collection = <<"a-1">>
    /\ use_latest_collection = FALSE
    /\ col_list = <<>>
    /\ col_index = 0
    /\ results = <<>>
    /\ col_calls = <<>>
    /\ col_responses = <<>>
    /\ IdleItems

NextOrders ==
    \/ ColEnter \/ ColCallInner \/ ColRecv \/ ColReturn
    \/ GeomEnter \/ GeomCallInner \/ GeomRecv \/ GeomReturn
    \/ LimitEnter \/ LimitCallInner \/ LimitRecv \/ LimitReturn
    \/ ItemsBind \/ ItemsRequest

SpecOrders == InitOrders /\ [][NextOrders]_vars

\* C23: every nesting order of the three wrappers around the fetcher works:
\* with an upstream that answers every request with a page, no composed
\* call is left by the fault of a key missing from the result of the
\* component inside.
C23_AnyOrderWorks ==
    pc = "done" => (~Has(result, "raised") \/ result.raised # "KeyError")

----------------------------------------------------------------------------
(* construct_response of src/Azure/function_app.py, the body of every items *)
(* route; func is the composed call of the route                            *)

\* lines 19-49: the schema classes of the routes
Schemas ==
    {"BaseSchema", "LimitSchema", "GeomSchema", "ColSchema", "LimitGeomSchema",
     "LimitColSchema", "GeomColSchema", "LimitGeomColSchema"}

\* lines 145-154
SchemaError == ErrorPayload(400, "ValidationError", "Catalyst Wrapper")

\* lines 182-185
InternalError(e) == [error |-> e, status |-> 500]

NotSupportedDescription ==
    "Not supported query parameter. Additional supported Catalyst parameters for this function are: {attr}."

\* lines 172-174, descr.format(attr=attributes): the fields of the schema
\* put in the place of {attr}; a text without braces is left as it is
FormatDescription(descr, schema) ==
    IF descr # NotSupportedDescription THEN descr
    ELSE IF schema = "BaseSchema"
    THEN "Not supported query parameter. Additional supported Catalyst parameters for this function are: wkt, use-latest-collection."
    ELSE IF schema = "LimitSchema"
    THEN "Not supported query parameter. Additional supported Catalyst parameters for this function are: wkt, use-latest-collection, limit, request-limit."
    ELSE IF schema = "GeomSchema"
    THEN "Not supported query parameter. Additional supported Catalyst parameters for this function are: wkt, use-latest-collection, hierarchical-output."
    ELSE IF schema = "ColSchema"
    THEN "Not supported query parameter. Additional supported Catalyst parameters for this function are: wkt, use-latest-collection, hierarchical-output, collection."
    ELSE IF schema = "LimitGeomSchema"
    THEN "Not supported query parameter. Additional supported Catalyst parameters for this function are: wkt, use-latest-collection, hierarchical-output, limit, request-limit."
    ELSE IF schema = "LimitColSchema"
    THEN "Not supported query parameter. Additional supported Catalyst parameters for this function are: wkt, use-latest-collection, hierarchical-output, collection, limit, request-limit."
    ELSE IF schema = "GeomColSchema"
    THEN "Not supported query parameter. Additional supported Catalyst parameters for this function are: wkt, use-latest-collection, hierarchical-output, collection."
    ELSE "Not supported query parameter. Additional supported Catalyst parameters for this function are: wkt, use-latest-collection, hierarchical-output, collection, limit, request-limit."

\* line 174: str.format takes every {...} of the text for a replacement
\* field and raises KeyError for a field other than attr
FormatFault(descr) == IF descr = BraceDescription THEN "KeyError" ELSE ""

\* lines 280-284, 293-297 of NGD_API_Wrappers.py: the answers for which the
\* fetcher's payload has a dict, not a text, as its description
DictDescription(http) ==
    IF Has(http.body, "json") THEN http.body.empty
    ELSE /\ http.status >= 400
         /\ ~Has(http.body, "description") \/ http.body.description = ""

\* lines 170-190: the response for what func returned; a dict has no format
\* method, the AttributeError is caught at line 181; HttpResponse is built
\* without a status_code at line 177 and so has the status 200
Respond(data, dict_description) ==
    /\ result' = data
    /\ IF Has(data, "errorSource") /\ Has(data, "description")
       THEN IF dict_description
            THEN http_response' = [status_code |-> 500, body |-> InternalError("AttributeError")]
            ELSE IF FormatFault(data.description) # ""
            THEN http_response' =
                     [status_code |-> 500, body |-> InternalError(FormatFault(data.description))]
            ELSE http_response' =
                     [status_code |-> 200,
                      body |-> [data EXCEPT !.description = FormatDescription(@, request.schema)]]
       ELSE http_response' = [status_code |-> 200, body |-> data]

\* lines 131-190
ConstructResponse ==
    /\ pc = "construct_response"
    /\ pc' = "done"
    /\ IF ~request.valid
       THEN /\ http_response' = [status_code |-> 400, body |-> SchemaError]
            /\ UNCHANGED result
       ELSE \/ \E http \in HttpResponses("a-1") :
                  Respond(ItemsResponse(http, TRUE), DictDescription(http))
            \/ \E data \in {OffsetError, InvalidGeometry, CredentialsError} :
                  Respond(data, FALSE)
            \/ Respond(NotFound("x"), FALSE)
            \/ \E n \in 0..1 : Respond(ResultSet(CollectionFeatures("a-1", n), 1), FALSE)
            \/ \E e \in {"AttributeError", "TypeError", "KeyError", "Timeout"} :
                  /\ result' = Raised(e)
                  /\ http_response' = [status_code |-> 500, body |-> InternalError(e)]
    /\ UNCHANGED <<stack, upstream, calls, failures, filterVars, request>>
    /\ UNCHANGED <<limitVars, authVars, geomVars, colVars, itemsVars>>

InitRoute ==
    /\ stack = <<"construct_response">>
    /\ pc = stack[1]
    /\ result = EmptyDict
    /\ upstream = [kind |-> "any", total |-> 0]
    /\ calls = <<>>
    /\ failures = <<>>
    /\ params = <<>>
    /\ IdleBbox
    /\ limit = None
    /\ request_limit = None
    /\ caller_query_params = EmptyDict
    /\ query_params = EmptyDict
    /\ features = <<>>
    /\ batch_count = None
    /\ final_batchsize = None
    /\ request_count = 0
    /\ offset = 0
    /\ IdleAuth
    /\ IdleGeom
    /\ IdleCol
    /\ catalog \in {{}, {"a-1"}}
    /\ lookup = EmptyDict
    /\ items_args = [collection |-> "", use_latest_collection |-> FALSE,
                     query_params |-> EmptyDict, filter_params |-> <<>>, wkt |-> "",
                     add_metadata |-> TRUE]
    /\ items_requests = <<>>
    /\ request \in [schema : Schemas, valid : BOOLEAN]
    /\ http_response = [status_code |-> 0, body |-> EmptyDict]

NextRoute == ConstructResponse

SpecRoute == InitRoute /\ [][NextRoute]_vars

\* C24: when the coordinator of a route returns an error payload, the HTTP
\* response has the payload's code as its status and the payload as its
\* body; when it returns a result set, the status is 200.
C24_StatusFromPayload ==
    (pc = "done" /\ request.valid /\ ~Has(result, "raised")) =>
        IF Has(result, "code")
        THEN /\ http_response.status_code = result.code
             /\ Has(http_response.body, "code") /\ http_response.body.code = result.code
        ELSE http_response.status_code = 200

\* C39: construct_response delivers every error payload of a coordinator
\* with its code and description: the body of the response is the payload
\* (with {attr} filled in), never the generic 500 answer, also for the 414
\* payload whose description is an object and for descriptions with braces.
C39_ErrorPayloadDelivered ==
    (pc = "done" /\ request.valid /\ Has(result, "code") /\ result.code >= 400) =>
        /\ Has(http_response.body, "code") /\ http_response.body.code = result.code
        /\ Has(http_response.body, "description")

FullStack == <<"col", "geom", "limit">>

\* C22: in the full stack, once the innermost function has answered a page
\* request with an error payload of a code >= 400 other than 401, no further
\* page request is made, the payload travels unchanged through every layer,
\* and the finished call's result is exactly that payload, with no features
\* of earlier pages, parts or collections.
C22_ErrorPropagates ==
    (stack = FullStack /\ failures # <<>> /\ failures[1].payload.code # 401) =>
        /\ Len(failures) = 1
        /\ Len(calls) = failures[1].at
        /\ pc \in {"geom_recv", "col_recv", "done"}
        /\ result = failures[1].payload
        /\ ~Has(result, "features") /\ ~Has(result, "searchAreas")

\* the atomic parts of the geometry argument
Parts == IF wkt.valid THEN Len(multilevel_explode(wkt.geom)) ELSE 0

\* C31: in items_limit_geom_col limit and request_limit apply to each
\* (collection, geometry part) pair on its own: every pair is paginated from
\* offset 0 in steps of 100 with its own request count, makes at most
\* request_limit requests and returns at most limit features, the pairs'
\* counts add up to the requests made, and the top-level numberOfRequests is
\* bounded by request_limit x parts x collections.
C31_LimitsPerPair ==
    stack = FullStack =>
        /\ \A i \in 1..Len(calls) :
              /\ \/ calls[i]["offset"] = 0
                 \/ i > 1 /\ calls[i]["offset"] = calls[i - 1]["offset"] + PageSize
              /\ (request_limit.some /\ request_limit.v >= 1) =>
                    calls[i]["offset"] <= PageSize * (request_limit.v - 1)
        /\ Len(geom_responses) <= Parts * Len(col_list)
        /\ \A i \in 1..Len(geom_responses) :
              Has(geom_responses[i], "numberOfRequests") =>
                  /\ (request_limit.some /\ request_limit.v >= 1) =>
                        geom_responses[i].numberOfRequests <= request_limit.v
                  /\ (limit.some /\ limit.v >= 1) =>
                        Len(geom_responses[i].features) <= limit.v
        /\ (pc = "done" /\ failures = <<>>
               /\ \A i \in 1..Len(geom_responses) :
                      Has(geom_responses[i], "numberOfRequests")) =>
              SumOver([i \in 1..Len(geom_responses) |-> geom_responses[i].numberOfRequests],
                      1..Len(geom_responses)) = Len(calls)
        /\ (pc = "done" /\ Has(result, "numberOfRequests")
               /\ request_limit.some /\ request_limit.v >= 1) =>
              result.numberOfRequests <= request_limit.v * Parts * Len(col_list)

\* request_limit = 1 over two collections and two parts: four requests, each
\* from offset 0, and a top-level numberOfRequests of 4
C31_Witness ==
    /\ stack = FullStack /\ pc = "done"
    /\ request_limit = Some(1)
    /\ Len(col_list) = 2 /\ Parts = 2
    /\ Len(calls) = 4 /\ \A i \in 1..4 : calls[i]["offset"] = 0
    /\ Has(result, "numberOfRequests") /\ result.numberOfRequests = 4

\* the failure comes in the second collection, after parts and pages of the
\* first were fetched
C22_Witness ==
    /\ stack = FullStack /\ pc = "done"
    /\ Len(failures) = 1 /\ failures[1].at >= 3
    /\ Len(col_responses) = 2 /\ Has(col_responses[1], "features")
    /\ result = ErrorPayload(404, "upstream", "OS NGD API")

====
